---- MODULE Spec2Model ----
(***************************************************************************)
(* A model of the Recoverable Structured Invocation Pipeline of The Rook   *)
(* (rook_orchestrator/utils/llm_client.py): the credential pool            *)
(* APIKeyRotation, the retry loop call_llm, the extraction function        *)
(* extract_json_from_text and the repair ladder call_llm_structured.       *)
(*                                                                         *)
(* Texts are sequences of lexical tokens (braces, brackets, commas, keys,  *)
(* scalars, code fences, prose); credentials are sequences of characters.  *)
(* Times are in tenths of a second.                                        *)
(***************************************************************************)
EXTENDS Integers, Sequences, FiniteSets, TLC

\* ------------------------------------------------------------------ bounds
\* The largest configured value of LLM_MAX_RETRIES that is explored.
MaxRetriesCfg == 4
\* The longest credential list that is explored.
MaxKeys == 2
\* The number of operations on a pool object explored by PoolSpec.
MaxPoolOps == 5
\* The number of threads sharing one pool in ThreadSpec.
NThreads == 2
\* The number of pool operations the threads of ThreadSpec begin in total.
MaxThreadOps == 3
\* The number of backend invocations the callers of SdkSpec begin in total.
MaxSdkCalls == 3
\* The number of calls with one prompt that StubSpec compares.
MaxStubCalls == 2
\* The longest list of risks in the insights given to plan_actions.
MaxRisks == 2
\* The largest number of drafts asked of generate_email_interactive.
MaxDrafts == 3

\* --------------------------------------------------------------- constants
\* LLM_BACKOFF_BASE, default "0.8" seconds, in tenths of a second.
LLM_BACKOFF_BASE == 8
\* _mask_key shows the last 6 characters of a key longer than 8 characters.
MaskTail == 6
MaskMinLen == 8
\* The length to which a repair record's text snippet is cut.
SnippetMax == 1000

\* _call_llm_with_retries as plan_actions calls it: attempts, and backoff in
\* tenths of a second.
AgentAttempts == 3
AgentBackoff == 8

\* call_llm_structured: the default max_output_tokens and repair_max_tokens.
DefaultMaxTokens == 400
DefaultRepairTokens == 200

\* generate_email_interactive: the default worker_tokens and merge_tokens, the
\* max_output_tokens of its repair call, the repair_max_tokens of every call.
WorkerTokens == 250
MergeTokens == 400
RepairTokens == 350
EmailRepairMax == 150

GEMINI_MODEL == "gemini-2.5-flash"

\* ------------------------------------------------------------- credentials
ShortKey == <<"s", "h", "o", "r", "t">>
LongKey == <<"A", "I", "z", "a", "S", "y", "1", "2", "3", "4">>
OtherKey == <<"n", "o", "t", "i", "n", "p", "o", "o", "l">>
KeyUniverse == {ShortKey, LongKey}
NoKey == <<>>

RECURSIVE SeqsUpTo(_, _)
SeqsUpTo(S, n) ==
    IF n = 0 THEN {<<>>}
    ELSE LET shorter == SeqsUpTo(S, n - 1)
         IN shorter \cup {Append(s, x) : s \in shorter, x \in S}

KeyLists == SeqsUpTo(KeyUniverse, MaxKeys)

LoadKeyListNoSingle(multi, single) == multi

\* _load_key_list: the keys of MULTI_GEMINI_KEYS, or else the single key.
LoadKeyList(multi, single) ==
    IF multi = <<>> /\ single # NoKey THEN <<single>> ELSE multi

Dots == <<".", ".", ".">>
EmptyMask == <<"E", "M", "P", "T", "Y">>

\* _mask_key
MaskKey(key) ==
    IF key = <<>> THEN EmptyMask
    ELSE IF Len(key) > MaskMinLen
         THEN Dots \o SubSeq(key, Len(key) - MaskTail + 1, Len(key))
         ELSE Dots \o key

\* ------------------------------------------------------- APIKeyRotation
NoPool == [keys |-> <<>>, index |-> -1]

\* APIKeyRotation.__init__: if not keys: raise ValueError
ConstructFails(keys) == keys = <<>>

PoolNewAtFirst(keys, idx) == [keys |-> keys, index |-> 0]

\* APIKeyRotation.__init__ with random.randrange returning idx.
PoolNew(keys, idx) == [keys |-> keys, index |-> idx]

\* APIKeyRotation.current
PoolCurrent(p) == p.keys[p.index + 1]

PoolRotateStuck(p) == p

PoolRotateTwice(p) == [p EXCEPT !.index = (p.index + 2) % Len(p.keys)]

PoolMarkDeadNoop(p, key) == p

\* APIKeyRotation.rotate: the pool after the call; it returns PoolCurrent of it.
PoolRotate(p) == [p EXCEPT !.index = (p.index + 1) % Len(p.keys)]

PoolMarkDeadIfCurrent(p, key) == IF key = p.keys[p.index + 1] THEN PoolRotate(p) ELSE p

PoolMarkDeadRemoves(p, key) ==
    [p EXCEPT !.keys = SelectSeq(p.keys, LAMBDA k : k # key)]

\* APIKeyRotation.mark_dead
PoolMarkDead(p, key) == PoolRotate(p)

\* ------------------------------------------------------------------ texts
Keys == {"actions:", "summary:", "plan:"}
Scalars == {"act", "ok", "parse_failed", "no_action",
            "adjust_budget", "create_task", "reassign_task", "draft_email"}
Fence == "FENCE"

Min(a, b) == IF a < b THEN a ELSE b
Max(a, b) == IF a > b THEN a ELSE b

FirstIdx(s, tok) ==
    IF \E i \in 1..Len(s) : s[i] = tok
    THEN CHOOSE i \in 1..Len(s) : s[i] = tok /\ \A j \in 1..(i - 1) : s[j] # tok
    ELSE 0

LastIdx(s, tok) ==
    IF \E i \in 1..Len(s) : s[i] = tok
    THEN CHOOSE i \in 1..Len(s) : s[i] = tok /\ \A j \in (i + 1)..Len(s) : s[j] # tok
    ELSE 0

\* The elements of s at the indices in keep, in order.
SeqOfIdx(s, keep) ==
    LET F[i \in 0..Len(s)] ==
            IF i = 0 THEN <<>>
            ELSE IF i \in keep THEN Append(F[i - 1], s[i]) ELSE F[i - 1]
    IN F[Len(s)]

\* re.sub of the two code-fence patterns: fences (and their tag) are removed.
StripFences(s) == SeqOfIdx(s, {i \in 1..Len(s) : s[i] # Fence})

\* The two re.sub calls for trailing commas: a comma right before the
\* closing token is removed.
DropCommaBefore(s, close) ==
    SeqOfIdx(s, {i \in 1..Len(s) : ~(s[i] = "," /\ i < Len(s) /\ s[i + 1] = close)})

\* json.loads: the index after the JSON value that starts at s[i], 0 if none.
RECURSIVE ParseValue(_, _)
RECURSIVE ParseMembers(_, _)
RECURSIVE ParseElems(_, _)
ParseValue(s, i) ==
    IF i > Len(s) THEN 0
    ELSE IF s[i] \in Scalars THEN i + 1
    ELSE IF s[i] = "{"
         THEN IF i + 1 <= Len(s) /\ s[i + 1] = "}" THEN i + 2
              ELSE ParseMembers(s, i + 1)
    ELSE IF s[i] = "["
         THEN IF i + 1 <= Len(s) /\ s[i + 1] = "]" THEN i + 2
              ELSE ParseElems(s, i + 1)
    ELSE 0

ParseMembers(s, i) ==
    IF i > Len(s) \/ s[i] \notin Keys THEN 0
    ELSE LET j == ParseValue(s, i + 1)
         IN IF j = 0 \/ j > Len(s) THEN 0
            ELSE IF s[j] = "}" THEN j + 1
            ELSE IF s[j] = "," THEN ParseMembers(s, j + 1)
            ELSE 0

ParseElems(s, i) ==
    LET j == ParseValue(s, i)
    IN IF j = 0 \/ j > Len(s) THEN 0
       ELSE IF s[j] = "]" THEN j + 1
       ELSE IF s[j] = "," THEN ParseElems(s, j + 1)
       ELSE 0

\* A parse result: None of Python, or the value json.loads returned (written
\* as its token sequence).
NoneParsed == [ok |-> FALSE, val |-> <<>>]
SomeParsed(v) == [ok |-> TRUE, val |-> v]

\* json.loads inside try/except: the whole snippet must be one JSON value.
JsonLoads(s) ==
    IF Len(s) > 0 /\ ParseValue(s, 1) = Len(s) + 1 THEN SomeParsed(s) ELSE NoneParsed

\* The two greedy re.search patterns: a match runs from the
\* first opening token to the last closing token; <<0, 0>> when there is no match.
SpanMatch(s, open, close) ==
    LET a == FirstIdx(s, open)
        b == LastIdx(s, close)
    IN IF a > 0 /\ b > a THEN <<a, b>> ELSE <<0, 0>>

\* The depth-counting scan that runs when neither pattern matched.
DepthScan(s) ==
    LET start == FirstIdx(s, "{")
        Depth[i \in 0..Len(s)] ==
            IF i < start \/ start = 0 THEN 0
            ELSE Depth[i - 1] + (IF s[i] = "{" THEN 1 ELSE IF s[i] = "}" THEN -1 ELSE 0)
        ends == {i \in 1..Len(s) : i >= start /\ s[i] = "}" /\ Depth[i] = 0}
    IN IF start = 0 \/ ends = {} THEN NoneParsed
       ELSE LET e == CHOOSE i \in ends : \A j \in ends : i <= j
            IN JsonLoads(DropCommaBefore(SubSeq(s, start, e), "}"))

\* extract_json_from_text
ExtractJson(text) ==
    IF text = <<>> THEN NoneParsed
    ELSE LET clean == StripFences(text)
             obj == SpanMatch(clean, "{", "}")
             arr == SpanMatch(clean, "[", "]")
             cand == IF obj[1] > 0 /\ arr[1] > 0
                     THEN (IF obj[1] < arr[1] THEN obj ELSE arr)
                     ELSE IF obj[1] > 0 THEN obj ELSE arr
         IN IF cand[1] > 0
            THEN JsonLoads(DropCommaBefore(
                     DropCommaBefore(SubSeq(clean, cand[1], cand[2]), "}"), "]"))
            ELSE DepthScan(clean)

\* strategy_agent._strip_code_fence: the inside of the first fenced block, the
\* text itself when it has none.
StripCodeFence(s) ==
    LET a == FirstIdx(s, Fence)
        rest == SubSeq(s, a + 1, Len(s))
        b == FirstIdx(rest, Fence)
    IN IF a > 0 /\ b > 0 THEN SubSeq(rest, 1, b - 1) ELSE s

\* The last index of the first balanced {...} block of s, 0 if there is none.
FirstBalancedEnd(s) ==
    LET start == FirstIdx(s, "{")
        Depth[i \in 0..Len(s)] ==
            IF i < start \/ start = 0 THEN 0
            ELSE Depth[i - 1] + (IF s[i] = "{" THEN 1 ELSE IF s[i] = "}" THEN -1 ELSE 0)
        ends == {i \in 1..Len(s) : i >= start /\ s[i] = "}" /\ Depth[i] = 0}
    IN IF start = 0 \/ ends = {} THEN 0
       ELSE CHOOSE i \in ends : \A j \in ends : i <= j

\* _extract_json after the direct load failed: the first balanced block, then
\* the greedy pattern.
AgentScan(cleaned, start, end, span) ==
    IF start = 0 THEN NoneParsed
    ELSE IF end > 0 /\ JsonLoads(SubSeq(cleaned, start, end)).ok
         THEN JsonLoads(SubSeq(cleaned, start, end))
    ELSE IF span[1] > 0 THEN JsonLoads(SubSeq(cleaned, span[1], span[2]))
    ELSE NoneParsed

\* strategy_agent._extract_json
ExtractJsonAgent(text) ==
    IF text = <<>> THEN NoneParsed
    ELSE LET cleaned == StripCodeFence(text)
         IN IF JsonLoads(cleaned).ok THEN JsonLoads(cleaned)
            ELSE AgentScan(cleaned, FirstIdx(cleaned, "{"), FirstBalancedEnd(cleaned),
                           SpanMatch(cleaned, "{", "}"))

\* Representative backend outputs.
TxtPlan == <<"{", "actions:", "[", "act", "]", ",", "summary:", "ok", "}">>
TxtFenced == <<"prose", Fence, "{", "summary:", "ok", ",", "}", Fence, "prose">>
TxtProse == <<"prose", "prose">>
TxtTruncated == <<"{", "actions:", "[", "act">>
TxtTwoObjects == <<"{", "summary:", "ok", "}", "prose", "{", "summary:", "no_action", "}">>
TxtSentinelEcho == <<"{", "actions:", "[", "]", ",", "summary:", "parse_failed", "}">>
TxtEmpty == <<>>
\* str() of an SDK response object or of a candidate without content.
TxtRepr == <<"sdk_http_response", "Candidate(", "MAX_TOKENS", ")">>
\* str() of the dict the HTTP caller returns as the raw response.
TxtPyDict == <<"{", "'output':", "pystr", "}">>

\* The parsed value returned when every stage fails.
Sentinel == TxtSentinelEcho

\* The texts a successful backend invocation may carry.
BackendTexts == {TxtFenced, TxtProse, TxtSentinelEcho, TxtEmpty}

\* ------------------------------------------------------------- exceptions
\* An exception is described by the words its message holds.
NoExc == [words |-> {}]
Exceptions == {[words |-> {"quota"}], [words |-> {"429"}], [words |-> {"timeout"}]}

\* _is_quota_error; raw_status is always None since no exception is a tuple.
IsQuotaError(e) == e.words \cap {"quota", "rate limit", "429", "quotaexceeded"} # {}

\* str(last_exc)
ErrorText(e) == e.words

\* ------------------------------------------------------------------ prompts
\* A prompt is described by the stub keywords it contains.
CostWords == {"high_cpa", "CPA", "cost increase"}
OverloadWords == {"overload", "overloaded", "dev_overload"}
Scenarios == {{}, {"high_cpa"}, {"overloaded"}}

StubCostPlan == <<"{", "plan:", "[", "adjust_budget", ",", "create_task", "]", "}">>
StubOverloadPlan == <<"{", "plan:", "[", "reassign_task", ",", "draft_email", "]", "}">>
StubGenericPlan == <<"{", "plan:", "[", "create_task", "]", "}">>

StubResponseOverloadFirst(p) ==
    [text |-> IF p \cap OverloadWords # {} THEN StubOverloadPlan
              ELSE IF p \cap CostWords # {} THEN StubCostPlan
              ELSE StubGenericPlan,
     meta |-> [source |-> "stub"]]

\* _stub_response
StubResponse(p) ==
    [text |-> IF p \cap CostWords # {} THEN StubCostPlan
              ELSE IF p \cap OverloadWords # {} THEN StubOverloadPlan
              ELSE StubGenericPlan,
     meta |-> [source |-> "stub"]]

\* The stub keywords a text carries into a prompt built around it.
TextKeywords(t) ==
    {t[i] : i \in 1..Len(t)} \cap (CostWords \cup OverloadWords)

\* ---------------------------------------------------------------- call_llm
NoResult == [text |-> <<>>, meta |-> [source |-> "none"]]

LoopCeilingOneMore(n) == Max(1, n) + 1

\* The number of iterations of the retry loop: max(1, LLM_MAX_RETRIES).
LoopCeiling(n) == Max(1, n)

BackoffLinear(a) == LLM_BACKOFF_BASE * a

\* The backoff slept after failed attempt a (both error branches).
Backoff(a) == LLM_BACKOFF_BASE * (2 ^ (a - 1))

\* _call_sdk_once: the text object and the raw response of a reply with text t.
SdkReply(t) == [text |-> t, raw |-> [kind |-> "sdk", text |-> t]]

TxtJsonDump == <<"{", "output:", "empty", "}">>

\* _call_http_once: output, or else the JSON dump of the data.
HttpReply(t) ==
    [text |-> IF t # <<>> THEN t ELSE TxtJsonDump,
     raw |-> [kind |-> "http", text |-> t]]

SuccessResultUnmasked(reply, key) ==
    [text |-> reply.text, raw |-> reply.raw,
     meta |-> [model |-> GEMINI_MODEL, source |-> "gemini", api_key_masked |-> key]]

\* The result built after a successful invocation.
SuccessResult(reply, key) ==
    [text |-> reply.text, raw |-> reply.raw,
     meta |-> [model |-> GEMINI_MODEL, source |-> "gemini",
               api_key_masked |-> MaskKey(key)]]

FallbackResultNoText(p, e) ==
    [meta |-> [source |-> "stub-fallback", error |-> ErrorText(e)]]

FallbackResultProse(p, e) ==
    [text |-> TxtProse, meta |-> [source |-> "stub-fallback", error |-> ErrorText(e)]]

\* The stub-fallback returned when the loop is exhausted.
FallbackResult(p, e) ==
    [text |-> StubResponse(p).text,
     meta |-> [source |-> "stub-fallback", error |-> ErrorText(e)]]

\* ------------------------------------------------------ structured helpers
\* raw.get("raw", raw.get("text", ""))
RawOrText(r) ==
    IF "raw" \in DOMAIN r THEN r.raw ELSE [kind |-> "str", text |-> r.text]

\* get_text_from_sdk_resp: the parts' text of an SDK response, else str() of it.
GetTextFromSdkResp(rr) ==
    IF rr.kind = "sdk" THEN (IF rr.text # <<>> THEN rr.text ELSE TxtRepr)
    ELSE IF rr.kind = "http" THEN TxtPyDict
    ELSE rr.text

Snippet(t) == SubSeq(t, 1, Min(Len(t), SnippetMax))

\* The record stored under _repair_attempt / _repair_attempt_2.
RepairRecord(name, text, r) ==
    [attempt |-> name, repaired_text_snippet |-> Snippet(text), repair_meta |-> r.meta]

NeedRepairNever(p) == FALSE

\* if parsed is None (before the repair call)
NeedRepair(p) == ~p.ok

NeedRegenAlways(p) == TRUE

\* if parsed is None (before the regeneration call)
NeedRegen(p) == ~p.ok

AttachRepairDropped(r, text, rep) == r

\* raw["_repair_attempt"] = {...}
AttachRepair(r, text, rep) ==
    r @@ ("_repair_attempt" :> RepairRecord("extract_from_text", text, rep))

AttachRegenTakesMeta(r, text, rep) ==
    [r EXCEPT !.meta = rep.meta]
        @@ ("_repair_attempt_2" :> RepairRecord("regenerate_from_scenario", text, rep))

\* raw["_repair_attempt_2"] = {...}
AttachRegen(r, text, rep) ==
    r @@ ("_repair_attempt_2" :> RepairRecord("regenerate_from_scenario", text, rep))

FinalParsedNoDefault(p) == p

\* if parsed is None: parsed = the sentinel
FinalParsed(p) == IF p.ok THEN p ELSE SomeParsed(Sentinel)

\* raw["_parse_status"] = "failed"
FinalRaw(r, p) == IF p.ok THEN r ELSE r @@ ("_parse_status" :> "failed")

\* ------------------------------------------------------------ JSON values
\* A JSON value (a Python object after json.loads) is a record tagged with
\* its kind; numbers are in tenths (0.5 is 5, -0.2 is -2).
JNull == [k |-> "null"]
JBool(b) == [k |-> "bool", b |-> b]
JNum(n) == [k |-> "num", n |-> n]
JStr(str) == [k |-> "str", s |-> str]
JList(q) == [k |-> "list", items |-> q]
JDict(m) == [k |-> "dict", m |-> m]
NoFields == <<>>

\* dict.get(key): None when the key is missing.
Get(d, key) == IF key \in DOMAIN d.m THEN d.m[key] ELSE JNull

\* The truth value Python gives a value in or, not and if.
Truthy(v) ==
    CASE v.k = "null" -> FALSE
      [] v.k = "bool" -> v.b
      [] v.k = "num" -> v.n # 0
      [] v.k = "str" -> v.s # ""
      [] v.k = "text" -> v.lines # <<>>
      [] v.k = "obj" -> TRUE
      [] v.k = "list" -> v.items # <<>>
      [] v.k = "dict" -> DOMAIN v.m # {}

\* a or b or c: the first truthy operand, else the last one.
OrChain(q) ==
    IF \E i \in 1..Len(q) : Truthy(q[i])
    THEN q[CHOOSE i \in 1..Len(q) : Truthy(q[i]) /\ \A j \in 1..(i - 1) : ~Truthy(q[j])]
    ELSE q[Len(q)]

\* str(v): the string itself, or the printed form of any other value.
PyStr(v) == IF v.k = "str" THEN v.s ELSE "repr"

\* The strings float() reads as a number, with the number.
NumericStr == ("0.9" :> 9) @@ ("1.5" :> 15)

\* float(v): numbers and booleans convert, a string converts when it spells a
\* number and raises ValueError otherwise, any other value raises TypeError.
PyFloat(v) ==
    CASE v.k = "num" -> [exc |-> "none", n |-> v.n]
      [] v.k = "bool" -> [exc |-> "none", n |-> IF v.b THEN 10 ELSE 0]
      [] v.k = "str" -> IF v.s \in DOMAIN NumericStr
                        THEN [exc |-> "none", n |-> NumericStr[v.s]]
                        ELSE [exc |-> "ValueError", n |-> 0]
      [] OTHER -> [exc |-> "TypeError", n |-> 0]

\* --------------------------------------------------------------- _map_action
\* type_map
TypeMap ==
    [t \in {"move_card", "add_comment", "create_card", "set_due_date", "create_task",
            "investigation", "analysis", "audit"} |-> "create_task"]
    @@ [t \in {"assign_member", "reassign_task"} |-> "reassign_task"]
    @@ [t \in {"draft_email", "communication"} |-> "draft_email"]
    @@ [t \in {"adjust_budget", "schedule_post", "pause_campaign", "run_analysis"} |-> t]

\* set(type_map.values())
CanonicalTypes == {TypeMap[t] : t \in DOMAIN TypeMap}

\* The action type chosen for the value of action_type, type or action.
ActionType(rt) ==
    IF rt.k = "null" \/ PyStr(rt) = "" THEN "create_task"
    ELSE IF PyStr(rt) \in DOMAIN TypeMap THEN TypeMap[PyStr(rt)]
    ELSE IF PyStr(rt) \in CanonicalTypes THEN PyStr(rt)
    ELSE "create_task"

Reserved == {"action_type", "type", "action", "reason", "expected_impact", "preconditions",
             "rollback_plan", "confidence", "estimated_time_hours", "summary", "task"}
MirrorKeys == {"campaign_id", "adjustment", "assignee", "to", "subject", "body",
               "due_date", "member_id"}

\* The key under which a colliding key of a nested details dict is kept.
InnerName(key) ==
    CASE key = "campaign_id" -> "_inner_campaign_id"
      [] key = "adjustment" -> "_inner_adjustment"
      [] OTHER -> "_inner_key"

\* The details of a dict action: its details dict, the top-level keys that
\* are not reserved over it, and a nested details dict flattened into it.
MergedDetails(raw) ==
    LET own == IF Get(raw, "details").k = "dict" THEN Get(raw, "details").m ELSE NoFields
        top == DOMAIN raw.m \ (Reserved \cup {"details"})
        merged == [key \in DOMAIN own \cup top |->
                       IF key \in top THEN raw.m[key] ELSE own[key]]
        nested == "details" \in DOMAIN merged /\ merged["details"].k = "dict"
        inner == IF nested THEN merged["details"].m ELSE NoFields
        outer == [key \in DOMAIN merged \ (IF nested THEN {"details"} ELSE {}) |-> merged[key]]
        fresh == [key \in DOMAIN inner \ DOMAIN outer |-> inner[key]]
        kept == [name \in {InnerName(key) : key \in DOMAIN inner \cap DOMAIN outer} |->
                     inner[CHOOSE key \in DOMAIN inner \cap DOMAIN outer : InnerName(key) = name]]
    IN kept @@ fresh @@ outer

\* _map_action for a dict whose confidence converts to number conf.
MapDict(raw, conf) ==
    LET act == Get(raw, "action")
        merged == MergedDetails(raw)
        prose == DOMAIN merged = {} /\ Truthy(act)
        details == IF prose THEN ("task" :> act) ELSE merged
        base == [action_type |-> JStr(ActionType(OrChain(<<Get(raw, "action_type"),
                                                            Get(raw, "type"), act>>))),
                 details |-> JDict(details),
                 reason |-> OrChain(<<Get(raw, "reason"), Get(raw, "summary"),
                                      Get(raw, "title"), act, JNull>>),
                 expected_impact |-> Get(raw, "expected_impact"),
                 preconditions |-> IF "preconditions" \in DOMAIN raw.m
                                   THEN raw.m["preconditions"] ELSE JList(<<>>),
                 rollback_plan |-> Get(raw, "rollback_plan"),
                 confidence |-> JNum(IF prose /\ ~Truthy(Get(raw, "confidence"))
                                     THEN Max(conf, 6) ELSE conf),
                 estimated_time_hours |-> IF "estimated_time_hours" \in DOMAIN raw.m
                                          THEN raw.m["estimated_time_hours"] ELSE JNum(0)]
        task == IF Truthy(Get(raw, "task")) THEN ("task" :> raw.m["task"])
                ELSE IF "task" \in DOMAIN merged THEN ("task" :> merged["task"])
                ELSE NoFields
        taskId == IF Truthy(Get(raw, "task_id")) THEN ("task_id" :> raw.m["task_id"])
                  ELSE NoFields
        mirrors == [key \in {x \in MirrorKeys \cap DOMAIN details : details[x].k # "null"} |->
                        details[key]]
        assignee == IF "member_id" \in DOMAIN details /\ "assignee" \notin DOMAIN mirrors
                    THEN ("assignee" :> details["member_id"]) ELSE NoFields
    IN JDict(assignee @@ mirrors @@ taskId @@ task @@ base)

\* The four fields only the string and the list branch add.
FullTail ==
    [expected_impact |-> JNull, preconditions |-> JList(<<>>), rollback_plan |-> JNull,
     estimated_time_hours |-> JNum(0)]

\* The parts of a list action: stripped strings, the printed form of the rest.
ListParts(q) == [i \in 1..Len(q) |-> IF q[i].k = "str" THEN q[i] ELSE JStr("repr")]

\* _map_action: the action returned, or the exception raised by float().
MapAction(raw) ==
    CASE raw.k = "str" ->
            [exc |-> "none",
             val |-> JDict([action_type |-> JStr("create_task"), task |-> raw,
                            details |-> JDict([task |-> raw]),
                            reason |-> JStr("Converted from string action"),
                            confidence |-> JNum(6)] @@ FullTail)]
      [] raw.k = "list" ->
            [exc |-> "none",
             val |-> JDict([action_type |-> JStr("create_task"), task |-> JStr("joined"),
                            details |-> JDict([task |-> JStr("joined"),
                                               items |-> JList(ListParts(raw.items))]),
                            reason |-> JStr("Converted from list of actions"),
                            confidence |-> JNum(6)] @@ FullTail)]
      [] raw.k = "dict" ->
            LET c == Get(raw, "confidence")
                f == IF c.k = "null" THEN [exc |-> "none", n |-> 5] ELSE PyFloat(c)
            IN IF f.exc # "none" THEN [exc |-> f.exc, val |-> JNull]
               ELSE [exc |-> "none", val |-> MapDict(raw, f.n)]
      [] OTHER ->
            [exc |-> "none",
             val |-> JDict([action_type |-> JStr("create_task"), task |-> JStr("repr"),
                            details |-> JDict([task |-> JStr("repr")]),
                            reason |-> JStr("Converted fallback action"),
                            confidence |-> JNum(5)])]

\* ----------------------------------------------------------- plan_actions
\* The structured form of the plan _stub_response puts in its text.
StubPlan(p) ==
    IF p \cap CostWords # {}
    THEN <<JDict([action_type |-> JStr("adjust_budget"), campaign_id |-> JStr("leadgen_nov"),
                  adjustment |-> JNum(-2), reason |-> JStr("Reduce spend to control CPA"),
                  confidence |-> JNum(7)]),
           JDict([action_type |-> JStr("create_task"),
                  task |-> JStr("Investigate creatives for leadgen_nov"),
                  assignee |-> JStr("marketing_lead"),
                  reason |-> JStr("Possible creative fatigue"), confidence |-> JNum(5)])>>
    ELSE IF p \cap OverloadWords # {}
    THEN <<JDict([action_type |-> JStr("reassign_task"), task_id |-> JStr("t123"),
                  from |-> JStr("dev_ajay"), to |-> JStr("dev_sana"),
                  reason |-> JStr("Balance load"), confidence |-> JNum(8)]),
           JDict([action_type |-> JStr("draft_email"), to |-> JStr("client@example.com"),
                  subject |-> JStr("Timeline update"), body |-> JStr("We recommend"),
                  confidence |-> JNum(6)])>>
    ELSE <<JDict([action_type |-> JStr("create_task"),
                  task |-> JStr("Review campaign performance"),
                  assignee |-> JStr("marketing_lead"), reason |-> JStr("Periodic check"),
                  confidence |-> JNum(4)])>>

\* A response text is described by its form (json: one JSON document; fenced:
\* one inside a code fence; prose_json: an object with prose around it; prose:
\* no brace at all; empty) and the JSON value it carries.
AgentText(form, value) == [form |-> form, value |-> value]

\* json.dumps of the stub plan
StubText(p) == AgentText("json", JDict([plan |-> JList(StubPlan(p))]))

\* _extract_json: None for an empty text and for prose; json.loads of the
\* text, of the inside of its fence, or of its first balanced object.
AgentExtract(t) ==
    IF t.form \in {"empty", "prose"} THEN JNull
    ELSE IF t.form = "prose_json" /\ t.value.k # "dict" THEN JNull
    ELSE t.value

\* _is_valid_plan_schema
IsValidPlanSchema(parsed) ==
    /\ parsed.k = "dict"
    /\ Get(parsed, "actions").k = "list"
    /\ \A i \in 1..Len(Get(parsed, "actions").items) :
           LET a == Get(parsed, "actions").items[i]
           IN /\ a.k = "dict"
              /\ \/ \E key \in {"action_type", "type", "action"} : Get(a, key).k = "str"
                 \/ "details" \in DOMAIN a.m
              /\ "details" \in DOMAIN a.m => a.m["details"].k = "dict"
    /\ Get(parsed, "summary").k \in {"null", "str"}

\* The elements a for loop takes from a value that are dicts (a string gives
\* characters and a dict gives keys, never a dict).
DictItems(v) == IF v.k = "list" THEN SelectSeq(v.items, LAMBDA x : x.k = "dict") ELSE <<>>

\* A for loop over the value raises TypeError.
NotIterable(v) == v.k \in {"num", "bool"}

IsHighCpa(r) == Get(r, "issue").k = "str" /\ Get(r, "issue").s = "high_cpa"

\* The action _synthesize_from_board appends for a high_cpa risk.
BudgetAction(campaign, reason) ==
    JDict([action_type |-> JStr("adjust_budget"),
           details |-> JDict([campaign_id |-> campaign, adjustment |-> JNum(-2)]),
           reason |-> reason, confidence |-> JNum(6)])

RisksOfListOnly(c) == OrChain(<<Get(c, "risks"), JList(<<>>)>>)

\* c.get(risks) or [], a single dict taken as a list of one.
RisksOf(c) ==
    LET r == OrChain(<<Get(c, "risks"), JList(<<>>)>>)
    IN IF r.k = "dict" THEN JList(<<r>>) ELSE r

\* The actions for the high_cpa risks of the campaigns of a board-like object.
RECURSIVE CampaignActions(_)
CampaignActions(cs) ==
    IF cs = <<>> THEN <<>>
    ELSE LET c == Head(cs)
             high == SelectSeq(DictItems(RisksOf(c)), IsHighCpa)
         IN [i \in 1..Len(high) |->
                 BudgetAction(Get(c, "campaign_id"),
                              OrChain(<<Get(high[i], "note"), JStr("High CPA detected")>>))]
            \o CampaignActions(Tail(cs))

InsightActionsFirstOnly(risks) ==
    LET high == SelectSeq(risks, LAMBDA r : r.k = "dict" /\ IsHighCpa(r))
    IN IF high = <<>> THEN <<>>
       ELSE <<BudgetAction(Get(high[1], "campaign_id"), Get(high[1], "note"))>>

\* The actions for the high_cpa risks of insights.
InsightActions(risks) ==
    LET high == SelectSeq(risks, LAMBDA r : r.k = "dict" /\ IsHighCpa(r))
    IN [i \in 1..Len(high) |-> BudgetAction(Get(high[i], "campaign_id"), Get(high[i], "note"))]

\* _synthesize_from_board: the actions, or the TypeError of a loop over a
\* number.
SynthesizeFromBoard(parsed, risks) ==
    LET cs == DictItems(OrChain(<<Get(parsed, "campaigns"), JList(<<>>)>>))
        found == CampaignActions(cs)
    IN IF \/ NotIterable(OrChain(<<Get(parsed, "campaigns"), JList(<<>>)>>))
          \/ \E i \in 1..Len(cs) : NotIterable(RisksOf(cs[i]))
       THEN [exc |-> "TypeError", val |-> <<>>]
       ELSE [exc |-> "none", val |-> IF found # <<>> THEN found ELSE InsightActions(risks)]

\* A list of _map_action results as the comprehension leaves it: the list of
\* the actions, or the first exception.
FirstRaised(mapped) ==
    IF \E i \in 1..Len(mapped) : mapped[i].exc # "none"
    THEN [exc |-> mapped[CHOOSE i \in 1..Len(mapped) :
                             /\ mapped[i].exc # "none"
                             /\ \A j \in 1..(i - 1) : mapped[j].exc = "none"].exc,
          val |-> <<>>]
    ELSE [exc |-> "none", val |-> [i \in 1..Len(mapped) |-> mapped[i].val]]

\* [_map_action(a) for a in actions]
MapAll(actions) == FirstRaised([i \in 1..Len(actions) |-> MapAction(actions[i])])

\* The deterministic plan of the hard fallback and of the final fallback.
InsightsPlan(risks) ==
    LET high == SelectSeq(risks, LAMBDA r : r.k = "dict" /\ IsHighCpa(r))
    IN IF high # <<>>
       THEN [i \in 1..Len(high) |->
                 JDict([action_type |-> JStr("adjust_budget"),
                        campaign_id |-> Get(high[i], "campaign_id"),
                        adjustment |-> JNum(-2), reason |-> Get(high[i], "note"),
                        confidence |-> JNum(6)])]
       ELSE <<JDict([action_type |-> JStr("create_task"),
                     task |-> JStr("Review campaign performance"),
                     assignee |-> JStr("marketing_lead"), reason |-> JStr("Periodic check"),
                     confidence |-> JNum(4)])>>

\* What plan_actions does with the extraction, synth being the outcome of
\* _synthesize_from_board: the actions it goes on to normalize (normalize is
\* TRUE), the plan of the final fallback, or an exception.
PlanChoice(parsed, synth, risks) ==
    IF Truthy(parsed) /\ IsValidPlanSchema(parsed)
    THEN [exc |-> "none", val |-> Get(parsed, "actions").items, normalize |-> TRUE]
    ELSE IF synth.exc # "none" THEN [exc |-> synth.exc, val |-> <<>>, normalize |-> FALSE]
    ELSE IF synth.val # <<>> THEN [exc |-> "none", val |-> synth.val, normalize |-> TRUE]
    ELSE IF Truthy(parsed) /\ parsed.k # "dict"
    THEN [exc |-> "AttributeError", val |-> <<>>, normalize |-> FALSE]
    ELSE LET maybe == IF Truthy(parsed)
                      THEN OrChain(<<Get(parsed, "actions"), Get(parsed, "plan"),
                                     JList(<<>>)>>)
                      ELSE JList(<<>>)
         IN IF maybe.k = "list" /\ maybe.items # <<>>
            THEN [exc |-> "none", val |-> maybe.items, normalize |-> TRUE]
            ELSE [exc |-> "none", val |-> InsightsPlan(risks), normalize |-> FALSE]

PlanNormalized(choice) ==
    IF choice.normalize THEN MapAll(choice.val)
    ELSE [exc |-> choice.exc, val |-> choice.val]

\* plan_actions from the extraction on: the plan returned, or the exception
\* that leaves plan_actions.
PlanFromParsed(parsed, risks) ==
    PlanNormalized(PlanChoice(parsed,
                              IF Truthy(parsed) /\ parsed.k = "dict"
                              THEN SynthesizeFromBoard(parsed, risks)
                              ELSE [exc |-> "none", val |-> <<>>],
                              risks))

\* -------------------------------------------------------------- email_api
\* A str of the email layer is kept as its lines, a line as its words; a
\* blank line has no word, the empty str has no line. Every text of the model
\* is shorter than 80 characters, so the cuts at 80, 1200 and 2000 characters
\* leave it whole.
PyText(lines) == [k |-> "text", lines |-> lines]
Line(word) == <<<<word>>>>
WordsOf(v) == UNION {{v.lines[j][i] : i \in 1..Len(v.lines[j])} : j \in 1..Len(v.lines)}

\* [ln for ln in raw_text.splitlines() if ln.strip()]
NonBlank(lines) == SelectSeq(lines, LAMBDA ln : ln # <<>>)

\* bad_words
BadWords == {"sdk_http_response", "Candidate(", "MAX_TOKENS", "GenerateContentResponse"}

\* The text of a response: its form (json: one JSON document; prose_json: one
\* object with prose around it; prose; empty), the JSON value it carries and
\* its lines.
RawText(form, value, lines) == [form |-> form, value |-> value, lines |-> lines]

\* _extract_json_snippet: json.loads of the whole text or of the window from
\* the first to the last brace; None when neither parses.
ExtractJsonSnippet(t) == IF t.form \in {"json", "prose_json"} THEN t.value ELSE JNull

\* The first-pass parse of call_llm_structured: the object or the array in
\* the text, None when it has neither.
StructuredParse(t) ==
    IF t.form = "prose_json" \/ (t.form = "json" /\ t.value.k \in {"dict", "list"})
    THEN t.value ELSE JNull

\* _normalize_parsed, final fallbacks
NormalizeDefaults(to, subject, body, meta, t, hint) ==
    [to |-> IF Truthy(to) THEN to ELSE PyText(Line("client@example.com")),
     subject |-> IF Truthy(subject) THEN subject
                 ELSE IF Truthy(hint) THEN hint
                 ELSE IF NonBlank(t.lines) # <<>> THEN PyText(<<Head(NonBlank(t.lines))>>)
                 ELSE PyText(Line("Update")),
     body |-> IF Truthy(body) THEN body
              ELSE IF Len(NonBlank(t.lines)) > 1 THEN PyText(Tail(NonBlank(t.lines)))
              ELSE PyText(t.lines),
     meta |-> meta]

\* _normalize_parsed, the fields missing after the parsed value are looked up
\* in the JSON snippet of the raw text; a snippet that is not an object has no
\* get.
NormalizeFill(to, subject, body, meta, snippet, t, hint) ==
    IF (Truthy(to) /\ Truthy(subject) /\ Truthy(body)) \/ ~Truthy(snippet)
    THEN [exc |-> "none", val |-> NormalizeDefaults(to, subject, body, meta, t, hint)]
    ELSE IF snippet.k # "dict" THEN [exc |-> "AttributeError", val |-> JNull]
    ELSE [exc |-> "none",
          val |-> NormalizeDefaults(
                      OrChain(<<to, Get(snippet, "to"), Get(snippet, "recipient")>>),
                      OrChain(<<subject, Get(snippet, "subject")>>),
                      OrChain(<<body, Get(snippet, "body"), Get(snippet, "text")>>),
                      ("from_raw_json" :> JBool(TRUE)) @@ meta, t, hint)]

\* _normalize_parsed(p, raw, subject_hint), t the text of raw: the draft, or
\* the exception raised.
NormalizeParsed(p, t, hint) ==
    IF p.k = "dict"
    THEN NormalizeFill(OrChain(<<Get(p, "to"), Get(p, "recipient"), Get(p, "email_to")>>),
                       Get(p, "subject"),
                       OrChain(<<Get(p, "body"), Get(p, "text"), Get(p, "content")>>),
                       IF Get(p, "meta").k = "dict" THEN Get(p, "meta").m ELSE NoFields,
                       ExtractJsonSnippet(t), t, hint)
    ELSE NormalizeFill(JNull, JNull, JNull, NoFields, ExtractJsonSnippet(t), t, hint)

\* The draft of a worker whose normalization raised.
RawDraft(t, hint) ==
    [to |-> PyText(Line("client@example.com")), subject |-> hint, body |-> PyText(t.lines),
     meta |-> ("normalization_error" :> JBool(TRUE))]

\* The draft of a worker, normalized being the outcome of _normalize_parsed.
CleanWorker(normalized, t, hint) ==
    IF normalized.exc = "none" THEN normalized.val ELSE RawDraft(t, hint)

CorruptedBodyOnly(final) ==
    IF final.body.k = "text" /\ final.subject.k = "text"
    THEN IF WordsOf(final.body) \cap BadWords # {} THEN "yes" ELSE "no"
    ELSE "TypeError"

CorruptedNever(final) == "no"

\* any(b in final[body] + final[subject] for b in bad_words): yes or no for
\* two strs, no for two lists of values, TypeError for any other pair.
Corrupted(final) ==
    IF final.body.k = "text" /\ final.subject.k = "text"
    THEN IF (WordsOf(final.body) \cup WordsOf(final.subject)) \cap BadWords # {}
         THEN "yes" ELSE "no"
    ELSE IF final.body.k = "list" /\ final.subject.k = "list" THEN "no"
    ELSE "TypeError"

\* parsed or {}
OrEmptyDict(parsed) == IF Truthy(parsed) THEN parsed ELSE JDict(NoFields)

\* ------------------------------------------------------------------- state
VARIABLES
    envMulti,      \* MULTI_GEMINI_KEYS, split and stripped
    envSingle,     \* GEMINI_API_KEY, NoKey when unset
    useSdk,        \* USE_SDK
    maxRetries,    \* LLM_MAX_RETRIES
    scenario,      \* the stub keywords of scenario_text
    llmPc,         \* call_llm: idle, loop, returned or raised
    prompt,        \* call_llm: the stub keywords of its prompt
    pool,          \* call_llm: rotation (NoPool for None); PoolSpec: the object
    attempt,       \* call_llm: the loop variable
    lastExc,       \* call_llm: last_exc
    ret,           \* call_llm: the returned result
    invocations,   \* the backend invocations made by the current call_llm
    rotations,     \* the rotations of pool since it was constructed
    sleeps,        \* the time.sleep durations of the current call_llm, in order
    usedKeys,      \* the key handed to each backend invocation, in order
    lastReply,     \* the text of the last successful backend invocation
    poolStart,     \* the index chosen when pool was constructed
    stage,         \* call_llm_structured: idle, primary, repair, regen, done
    raw,           \* call_llm_structured: raw
    parsed,        \* call_llm_structured: parsed
    calls,         \* the call_llm calls made by call_llm_structured
    exOk,          \* whether extraction succeeded, per stage so far
    origins,       \* where each call_llm call obtained its text, per stage so far
    poolSrc,       \* PoolSpec: the list given to the constructor
    poolRet,       \* PoolSpec: the value returned by the last operation
    poolLast,      \* PoolSpec: the last operation
    poolOps,       \* PoolSpec: the number of operations so far
    poolArg,       \* PoolSpec: the argument of the last operation, if it takes one
    lockOwner,     \* ThreadSpec: the thread holding self._lock, 0 when free
    thrPc,         \* ThreadSpec: where each thread is in its pool operation
    thrOp,         \* ThreadSpec: the pool operation each thread is in or did last
    thrTmp,        \* ThreadSpec: the index each thread loaded in rotate
    thrSet,        \* ThreadSpec: the index each thread stored in rotate
    thrRet,        \* ThreadSpec: the value current or rotate returned to each thread
    thrOps,        \* ThreadSpec: the number of operations begun so far
    osEnvKey,      \* SdkSpec: os.environ GEMINI_API_KEY, NoKey when unset
    sdkPc,         \* SdkSpec: where each caller is in its backend invocation
    sdkKey,        \* SdkSpec: the key handed to each caller's invocation
    sdkClient,     \* SdkSpec: the key each caller's genai.Client was built with
    sdkSent,       \* SdkSpec: the key that authenticated each caller's request
    sdkMasked,     \* SdkSpec: api_key_masked of each caller's result
    sdkCalls,      \* SdkSpec: the number of invocations begun so far
    fnArg,         \* StubSpec, MapSpec: the argument the function is applied to;
                   \* PlanSpec: the use_llm argument of plan_actions;
                   \* BudgetSpec: the token budgets the caller passes;
                   \* ExtractSpec: the response text, an object and what follows it;
                   \* ExecSpec: the plan handed to execute_plan;
                   \* LogSpec: where the responses of a run come from;
                   \* GateSpec: the plan and the approval settings
    fnRes,         \* StubSpec, MapSpec: what the applications returned, <<>> before;
                   \* BudgetSpec: the call_llm calls made so far;
                   \* ExtractSpec: what the extraction functions returned;
                   \* ExecSpec: what each execute_plan call returned and the stores after it;
                   \* LogSpec: the files each logging operation wrote;
                   \* GateSpec: the approval requests made and the approved plan
    planBoard,     \* PlanSpec: the stub keywords of board_state
    planRisks,     \* PlanSpec: insights[risks]
    planPc,        \* PlanSpec: plan_actions: idle, calling, extract, hard, done, raised
    planTry,       \* PlanSpec: _call_llm_with_retries: the loop variable i
    planLast,      \* PlanSpec: _call_llm_with_retries: last_exc, or the response
    planSleeps,    \* PlanSpec: the time.sleep durations of _call_llm_with_retries
    planOut,       \* PlanSpec: what plan_actions returned
    emHint,        \* EmailSpec: subject_hint
    emWorkers,     \* EmailSpec: workers, the number of drafts asked for
    emPc,          \* EmailSpec: generate_email_interactive: idle, workers, merge,
                   \* repair, log, done, raised
    emInFlight,    \* EmailSpec: the call_llm_structured call that has not returned
    emCalls,       \* EmailSpec: the call_llm_structured calls made, in order
    emParsed,      \* EmailSpec: parsed_workers
    emRaws,        \* EmailSpec: the texts of raw_worker_calls
    emClean,       \* EmailSpec: clean_workers
    emMerge,       \* EmailSpec: parsed_merge and the text of raw_merge
    emFinal,       \* EmailSpec: final
    emExc          \* EmailSpec: the exception that left the function, none if none

cfgVars == <<envMulti, envSingle, useSdk, maxRetries, scenario>>
llmVars == <<llmPc, prompt, pool, attempt, lastExc, ret, invocations, rotations,
             sleeps, usedKeys, lastReply, poolStart>>
structVars == <<stage, raw, parsed, calls, exOk, origins>>
poolVars == <<poolSrc, poolRet, poolLast, poolOps, poolArg>>
thrVars == <<lockOwner, thrPc, thrOp, thrTmp, thrSet, thrRet, thrOps>>
\* The variables of the specifications of single parts of the program.
sdkVars == <<osEnvKey, sdkPc, sdkKey, sdkClient, sdkSent, sdkMasked, sdkCalls>>
fnVars == <<fnArg, fnRes>>
planVars == <<planBoard, planRisks, planPc, planTry, planLast, planSleeps, planOut>>
emVars == <<emHint, emWorkers, emPc, emInFlight, emCalls, emParsed, emRaws, emClean, emMerge,
            emFinal, emExc>>
sideVars == <<thrVars, sdkVars, fnVars, planVars, emVars>>
vars == <<cfgVars, llmVars, structVars, poolVars, sideVars>>

RetryCfgs == 0..MaxRetriesCfg
Threads == 1..NThreads

InitFrames ==
    /\ llmPc = "idle" /\ prompt = {} /\ pool = NoPool /\ attempt = 0
    /\ lastExc = NoExc /\ ret = NoResult
    /\ invocations = 0 /\ rotations = 0 /\ sleeps = <<>> /\ usedKeys = <<>>
    /\ lastReply = <<>>
    /\ stage = "idle" /\ raw = NoResult /\ parsed = NoneParsed /\ calls = 0
    /\ exOk = <<>> /\ origins = <<>>
    /\ poolStart = -1
    /\ poolSrc = <<>> /\ poolRet = NoKey /\ poolLast = "none"
    /\ poolOps = 0 /\ poolArg = NoKey

\* The threads of ThreadSpec have not started.
ThreadFrames ==
    /\ lockOwner = 0
    /\ thrPc = [t \in Threads |-> "idle"]
    /\ thrOp = [t \in Threads |-> "none"]
    /\ thrTmp = [t \in Threads |-> -1]
    /\ thrSet = [t \in Threads |-> -1]
    /\ thrRet = [t \in Threads |-> NoKey]
    /\ thrOps = 0

\* No backend invocation of SdkSpec has begun.
SdkFrames ==
    /\ osEnvKey = NoKey
    /\ sdkPc = [t \in Threads |-> "idle"]
    /\ sdkKey = [t \in Threads |-> NoKey]
    /\ sdkClient = [t \in Threads |-> NoKey]
    /\ sdkSent = [t \in Threads |-> NoKey]
    /\ sdkMasked = [t \in Threads |-> EmptyMask]
    /\ sdkCalls = 0

\* No function has been applied.
FnFrames == fnArg = <<>> /\ fnRes = <<>>

NoResp == [text |-> <<>>, meta |-> [source |-> "none"]]
NoPlanOut == [plan |-> <<>>]

\* plan_actions has not been called.
PlanFrames ==
    /\ planBoard = {} /\ planRisks = <<>>
    /\ planPc = "idle" /\ planTry = 0
    /\ planLast = [kind |-> "none", resp |-> NoResp]
    /\ planSleeps = <<>>
    /\ planOut = NoPlanOut

NoCall == [kind |-> "none"]
NoReturn == [parsed |-> JNull, raw |-> RawText("empty", JNull, <<>>)]
NoDraft == [to |-> JNull, subject |-> JNull, body |-> JNull, meta |-> NoFields]

\* generate_email_interactive has not been called.
EmailFrames ==
    /\ emHint = PyText(<<>>) /\ emWorkers = 0
    /\ emPc = "idle" /\ emInFlight = NoCall
    /\ emCalls = <<>> /\ emParsed = <<>> /\ emRaws = <<>> /\ emClean = <<>>
    /\ emMerge = NoReturn
    /\ emFinal = NoDraft /\ emExc = "none"

SideFrames == ThreadFrames /\ SdkFrames /\ FnFrames /\ PlanFrames /\ EmailFrames

Init ==
    /\ envMulti \in KeyLists
    \* GEMINI_API_KEY is read only when MULTI_GEMINI_KEYS holds no key.
    /\ envSingle \in (IF envMulti = <<>> THEN {NoKey, ShortKey} ELSE {NoKey})
    /\ useSdk \in BOOLEAN
    /\ maxRetries \in RetryCfgs
    /\ scenario \in Scenarios
    /\ InitFrames
    /\ SideFrames

WantsPoolAlways(keys) == TRUE

\* rotation = APIKeyRotation(keys) if keys else None
WantsPool(keys) == keys # <<>>

\* call_llm up to the first loop iteration, with prompt p; llmPc is "raised"
\* when an exception leaves call_llm.
LLMEnter(p) ==
    LET keys == LoadKeyList(envMulti, envSingle)
    IN /\ prompt' = p
       /\ invocations' = 0 /\ rotations' = 0 /\ sleeps' = <<>> /\ usedKeys' = <<>>
       /\ lastExc' = NoExc /\ lastReply' = <<>>
       /\ IF keys = <<>> /\ ~useSdk
          THEN /\ ret' = StubResponse(p)
               /\ llmPc' = "returned" /\ attempt' = 0
               /\ pool' = NoPool /\ poolStart' = -1
          ELSE /\ ret' = NoResult
               /\ IF WantsPool(keys) /\ ConstructFails(keys)
                  THEN /\ llmPc' = "raised" /\ attempt' = 0
                       /\ pool' = NoPool /\ poolStart' = -1
                  ELSE /\ llmPc' = "loop" /\ attempt' = 1
                       /\ IF WantsPool(keys)
                          THEN \E idx \in 0..(Len(keys) - 1) :
                                   /\ pool' = PoolNew(keys, idx)
                                   /\ poolStart' = idx
                          ELSE pool' = NoPool /\ poolStart' = -1

\* key = rotation.current() if rotation else (GEMINI_API_KEY_SINGLE or "")
CurrentKey == IF pool # NoPool THEN PoolCurrent(pool) ELSE envSingle

\* One loop iteration whose backend invocation succeeds with text t.
AttemptOk(t) ==
    /\ llmPc = "loop"
    /\ usedKeys' = Append(usedKeys, CurrentKey)
    /\ invocations' = invocations + 1
    /\ ret' = SuccessResult(IF useSdk THEN SdkReply(t) ELSE HttpReply(t), CurrentKey)
    /\ lastReply' = t
    /\ llmPc' = "returned"
    /\ UNCHANGED <<prompt, pool, attempt, lastExc, rotations, sleeps, poolStart>>
    /\ UNCHANGED <<sideVars, cfgVars, structVars, poolVars>>

\* The part common to both except branches: last_exc, sleep, continue or fall back.
AttemptFailed(e, rotated) ==
    /\ llmPc = "loop"
    /\ usedKeys' = Append(usedKeys, CurrentKey)
    /\ invocations' = invocations + 1
    /\ lastExc' = e
    /\ pool' = IF pool # NoPool THEN rotated ELSE pool
    /\ rotations' = IF pool # NoPool THEN rotations + 1 ELSE rotations
    /\ sleeps' = Append(sleeps, Backoff(attempt))
    /\ IF attempt < LoopCeiling(maxRetries)
       THEN /\ attempt' = attempt + 1
            /\ UNCHANGED <<ret, llmPc>>
       ELSE /\ attempt' = attempt
            /\ ret' = FallbackResult(prompt, e)
            /\ llmPc' = "returned"
    /\ UNCHANGED <<prompt, lastReply, poolStart>>
    /\ UNCHANGED <<sideVars, cfgVars, structVars, poolVars>>

\* One loop iteration whose invocation raises a quota error: mark_dead, sleep.
AttemptQuotaError(e) ==
    /\ IsQuotaError(e)
    /\ AttemptFailed(e, PoolMarkDead(pool, CurrentKey))

\* One loop iteration whose invocation raises any other error: rotate, sleep.
AttemptOtherError(e) ==
    /\ ~IsQuotaError(e)
    /\ AttemptFailed(e, PoolRotate(pool))

\* ----------------------------------------------------- call_llm_structured
\* The prompts: the schema preamble and the fixed instructions hold no stub
\* keyword, so a prompt holds those of the text embedded in it.
PrimaryPrompt == scenario
RepairPrompt(textual) == TextKeywords(textual)
RegenPrompt == scenario

\* call_llm_structured up to its primary call of call_llm.
StructStart ==
    /\ stage = "idle"
    /\ stage' = "primary"
    /\ calls' = 1
    /\ LLMEnter(PrimaryPrompt)
    /\ UNCHANGED <<raw, parsed, exOk, origins>>
    /\ UNCHANGED <<sideVars, cfgVars, poolVars>>

\* The return of call_llm_structured.
StructReturn(r, p) ==
    /\ stage' = "done"
    /\ raw' = FinalRaw(r, p)
    /\ parsed' = FinalParsed(p)
    /\ UNCHANGED <<llmPc, prompt, pool, attempt, lastExc, ret, invocations, rotations,
                   sleeps, usedKeys, lastReply, poolStart, calls>>

\* From the return of the primary call to the repair call or the return.
AfterPrimary ==
    /\ stage = "primary" /\ llmPc = "returned"
    /\ LET textual == GetTextFromSdkResp(RawOrText(ret))
           p == ExtractJson(textual)
       IN /\ exOk' = Append(exOk, p.ok)
          /\ origins' = Append(origins, ret.meta.source)
          /\ IF NeedRepair(p)
             THEN /\ stage' = "repair"
                  /\ raw' = ret
                  /\ parsed' = p
                  /\ calls' = calls + 1
                  /\ LLMEnter(RepairPrompt(textual))
             ELSE StructReturn(ret, p)
    /\ UNCHANGED <<sideVars, cfgVars, poolVars>>

\* From the return of the repair call to the regeneration call or the return.
AfterRepair ==
    /\ stage = "repair" /\ llmPc = "returned"
    /\ LET repairText == GetTextFromSdkResp(RawOrText(ret))
           p == ExtractJson(repairText)
           r == AttachRepair(raw, repairText, ret)
       IN /\ exOk' = Append(exOk, p.ok)
          /\ origins' = Append(origins, ret.meta.source)
          /\ IF NeedRegen(p)
             THEN /\ stage' = "regen"
                  /\ raw' = r
                  /\ parsed' = p
                  /\ calls' = calls + 1
                  /\ LLMEnter(RegenPrompt)
             ELSE StructReturn(r, p)
    /\ UNCHANGED <<sideVars, cfgVars, poolVars>>

\* From the return of the regeneration call to the return.
AfterRegen ==
    /\ stage = "regen" /\ llmPc = "returned"
    /\ LET regenText == GetTextFromSdkResp(RawOrText(ret))
           p == ExtractJson(regenText)
       IN /\ exOk' = Append(exOk, p.ok)
          /\ origins' = Append(origins, ret.meta.source)
          /\ StructReturn(AttachRegen(raw, regenText, ret), p)
    /\ UNCHANGED <<sideVars, cfgVars, poolVars>>

Next ==
    \/ StructStart
    \/ \E t \in BackendTexts : AttemptOk(t)
    \/ \E e \in Exceptions : AttemptQuotaError(e)
    \/ \E e \in Exceptions : AttemptOtherError(e)
    \/ AfterPrimary
    \/ AfterRepair
    \/ AfterRegen

Spec == Init /\ [][Next]_vars

\* --------------------------------------------- a pool object on its own
\* The variables of call_llm that the operations of a pool leave alone.
llmRest == <<llmPc, prompt, attempt, lastExc, ret, invocations, sleeps, usedKeys,
             lastReply>>

\* APIKeyRotation(ks): raises ValueError for an empty list.
PConstruct(ks) ==
    /\ pool = NoPool /\ poolOps < MaxPoolOps
    /\ poolOps' = poolOps + 1
    /\ poolSrc' = ks /\ poolArg' = NoKey
    /\ rotations' = 0
    /\ IF ConstructFails(ks)
       THEN /\ pool' = NoPool
            /\ poolLast' = "ValueError"
            /\ UNCHANGED <<poolStart, poolRet>>
       ELSE /\ \E idx \in 0..(Len(ks) - 1) :
                  /\ pool' = PoolNew(ks, idx)
                  /\ poolStart' = idx
            /\ poolLast' = "construct"
            /\ UNCHANGED poolRet
    /\ UNCHANGED <<sideVars, cfgVars, structVars>>
    /\ UNCHANGED llmRest

PCurrent ==
    /\ pool # NoPool /\ poolOps < MaxPoolOps
    /\ poolOps' = poolOps + 1
    /\ poolRet' = PoolCurrent(pool)
    /\ poolLast' = "current" /\ poolArg' = NoKey
    /\ UNCHANGED <<pool, rotations, poolSrc, poolStart>>
    /\ UNCHANGED <<sideVars, cfgVars, structVars>>
    /\ UNCHANGED llmRest

PRotate ==
    /\ pool # NoPool /\ poolOps < MaxPoolOps
    /\ poolOps' = poolOps + 1
    /\ pool' = PoolRotate(pool)
    /\ poolRet' = PoolCurrent(pool')
    /\ rotations' = rotations + 1
    /\ poolLast' = "rotate" /\ poolArg' = NoKey
    /\ UNCHANGED <<poolSrc, poolStart>>
    /\ UNCHANGED <<sideVars, cfgVars, structVars>>
    /\ UNCHANGED llmRest

PMarkDead(c) ==
    /\ pool # NoPool /\ poolOps < MaxPoolOps
    /\ poolOps' = poolOps + 1
    /\ pool' = PoolMarkDead(pool, c)
    /\ poolRet' = NoKey
    /\ rotations' = rotations + 1
    /\ poolLast' = "mark_dead" /\ poolArg' = c
    /\ UNCHANGED <<poolSrc, poolStart>>
    /\ UNCHANGED <<sideVars, cfgVars, structVars>>
    /\ UNCHANGED llmRest

PoolInit ==
    /\ envMulti = <<>> /\ envSingle = NoKey /\ useSdk = FALSE
    /\ maxRetries = MaxRetriesCfg /\ scenario = {}
    /\ InitFrames
    /\ SideFrames

PoolNext ==
    \/ \E ks \in KeyLists : PConstruct(ks)
    \/ PCurrent
    \/ PRotate
    \/ \E c \in KeyUniverse \cup {OtherKey} : PMarkDead(c)

PoolSpec == PoolInit /\ [][PoolNext]_vars

\* ------------------------------------ threads sharing one pool object
LockFreeAlways(owner) == TRUE

\* with self._lock: the lock can be taken when no thread holds it.
LockFree(owner) == owner = 0

PoolOpNames == {"current", "rotate", "mark_dead"}

\* The variables the steps of a thread leave alone besides the pool.
threadRest == <<cfgVars, structVars, poolVars, sdkVars, fnVars, planVars, emVars>>

\* The pool the threads share is constructed before they start.
TConstruct(ks) ==
    /\ pool = NoPool /\ ~ConstructFails(ks)
    /\ \E idx \in 0..(Len(ks) - 1) :
           /\ pool' = PoolNew(ks, idx)
           /\ poolStart' = idx
    /\ rotations' = 0
    /\ UNCHANGED thrVars
    /\ UNCHANGED threadRest
    /\ UNCHANGED llmRest

\* Thread t calls current(), rotate() or mark_dead(key); mark_dead only calls
\* rotate, whatever its argument.
TBegin(t, op) ==
    /\ pool # NoPool /\ thrPc[t] = "idle" /\ thrOps < MaxThreadOps
    /\ thrOps' = thrOps + 1
    /\ thrOp' = [thrOp EXCEPT ![t] = op]
    /\ thrPc' = [thrPc EXCEPT ![t] = "acquire"]
    /\ UNCHANGED <<lockOwner, thrTmp, thrSet, thrRet>>
    /\ UNCHANGED <<pool, poolStart, rotations>>
    /\ UNCHANGED threadRest
    /\ UNCHANGED llmRest

\* Thread t enters the with block of current or rotate.
TAcquire(t) ==
    /\ thrPc[t] = "acquire" /\ LockFree(lockOwner)
    /\ lockOwner' = t
    /\ thrPc' = [thrPc EXCEPT ![t] = IF thrOp[t] = "current" THEN "return" ELSE "load"]
    /\ UNCHANGED <<thrOp, thrTmp, thrSet, thrRet, thrOps>>
    /\ UNCHANGED <<pool, poolStart, rotations>>
    /\ UNCHANGED threadRest
    /\ UNCHANGED llmRest

\* rotate: the right-hand side self._index + 1 is evaluated.
TLoad(t) ==
    /\ thrPc[t] = "load"
    /\ thrTmp' = [thrTmp EXCEPT ![t] = pool.index]
    /\ thrPc' = [thrPc EXCEPT ![t] = "store"]
    /\ UNCHANGED <<lockOwner, thrOp, thrSet, thrRet, thrOps>>
    /\ UNCHANGED <<pool, poolStart, rotations>>
    /\ UNCHANGED threadRest
    /\ UNCHANGED llmRest

\* rotate: self._index is assigned the successor of the index that was loaded.
TStore(t) ==
    /\ thrPc[t] = "store"
    /\ pool' = PoolRotate([pool EXCEPT !.index = thrTmp[t]])
    /\ rotations' = rotations + 1
    /\ thrSet' = [thrSet EXCEPT ![t] = pool'.index]
    /\ thrPc' = [thrPc EXCEPT ![t] = "return"]
    /\ UNCHANGED <<lockOwner, thrOp, thrTmp, thrRet, thrOps>>
    /\ UNCHANGED poolStart
    /\ UNCHANGED threadRest
    /\ UNCHANGED llmRest

\* return self._keys[self._index], and the with block is left.
TReturn(t) ==
    /\ thrPc[t] = "return"
    /\ thrRet' = [thrRet EXCEPT ![t] = PoolCurrent(pool)]
    /\ lockOwner' = 0
    /\ thrPc' = [thrPc EXCEPT ![t] = "idle"]
    /\ UNCHANGED <<thrOp, thrTmp, thrSet, thrOps>>
    /\ UNCHANGED <<pool, poolStart, rotations>>
    /\ UNCHANGED threadRest
    /\ UNCHANGED llmRest

ThreadNext ==
    \/ \E ks \in KeyLists : TConstruct(ks)
    \/ \E t \in Threads, op \in PoolOpNames : TBegin(t, op)
    \/ \E t \in Threads : TAcquire(t)
    \/ \E t \in Threads : TLoad(t)
    \/ \E t \in Threads : TStore(t)
    \/ \E t \in Threads : TReturn(t)

ThreadSpec == PoolInit /\ [][ThreadNext]_vars

\* --------------------------- backend invocations of concurrent callers
\* The variables a backend invocation leaves alone.
sdkRest == <<llmVars, structVars, poolVars, thrVars, fnVars, planVars, emVars>>

\* Caller t is in a loop iteration of call_llm: key is the current key of its
\* own rotation, or GEMINI_API_KEY_SINGLE or the empty string without one.
SBegin(t) ==
    /\ sdkPc[t] = "idle" /\ sdkCalls < MaxSdkCalls
    /\ LET keys == LoadKeyList(envMulti, envSingle)
       IN /\ ~(keys = <<>> /\ ~useSdk)
          /\ \E k \in (IF WantsPool(keys) THEN {keys[i] : i \in 1..Len(keys)}
                       ELSE {envSingle}) :
                 sdkKey' = [sdkKey EXCEPT ![t] = k]
    /\ sdkCalls' = sdkCalls + 1
    /\ sdkPc' = [sdkPc EXCEPT ![t] = IF useSdk THEN "setenv" ELSE "http"]
    /\ UNCHANGED <<osEnvKey, sdkClient, sdkSent, sdkMasked>>
    /\ UNCHANGED cfgVars
    /\ UNCHANGED sdkRest

\* _call_sdk_once: if key: os.environ[GEMINI_API_KEY] = key
SSetEnv(t) ==
    /\ sdkPc[t] = "setenv"
    /\ osEnvKey' = IF sdkKey[t] # NoKey THEN sdkKey[t] ELSE osEnvKey
    /\ sdkPc' = [sdkPc EXCEPT ![t] = "client"]
    /\ UNCHANGED <<sdkKey, sdkClient, sdkSent, sdkMasked, sdkCalls>>
    /\ UNCHANGED cfgVars
    /\ UNCHANGED sdkRest

\* _call_sdk_once: client = genai.Client(), which is given no key and takes
\* the one the environment holds at this moment.
SClient(t) ==
    /\ sdkPc[t] = "client"
    /\ sdkClient' = [sdkClient EXCEPT ![t] = osEnvKey]
    /\ sdkPc' = [sdkPc EXCEPT ![t] = "generate"]
    /\ UNCHANGED <<osEnvKey, sdkKey, sdkSent, sdkMasked, sdkCalls>>
    /\ UNCHANGED cfgVars
    /\ UNCHANGED sdkRest

\* The api_key_masked that call_llm records for an invocation made with key.
RecordedMask(key) == SuccessResult(SdkReply(TxtPlan), key).meta.api_key_masked

\* _call_sdk_once: client.models.generate_content sends the request with the
\* key of the client; call_llm then records the mask of the key it handed over.
SGenerate(t) ==
    /\ sdkPc[t] = "generate"
    /\ sdkSent' = [sdkSent EXCEPT ![t] = sdkClient[t]]
    /\ sdkMasked' = [sdkMasked EXCEPT ![t] = RecordedMask(sdkKey[t])]
    /\ sdkPc' = [sdkPc EXCEPT ![t] = "done"]
    /\ UNCHANGED <<osEnvKey, sdkKey, sdkClient, sdkCalls>>
    /\ UNCHANGED cfgVars
    /\ UNCHANGED sdkRest

\* _call_http_once: the request carries the key in its Authorization header.
SHttp(t) ==
    /\ sdkPc[t] = "http"
    /\ sdkSent' = [sdkSent EXCEPT ![t] = sdkKey[t]]
    /\ sdkMasked' = [sdkMasked EXCEPT ![t] = RecordedMask(sdkKey[t])]
    /\ sdkPc' = [sdkPc EXCEPT ![t] = "done"]
    /\ UNCHANGED <<osEnvKey, sdkKey, sdkClient, sdkCalls>>
    /\ UNCHANGED cfgVars
    /\ UNCHANGED sdkRest

\* The caller goes on to its next invocation, in this call of call_llm or in
\* a later one.
SAgain(t) ==
    /\ sdkPc[t] = "done" /\ sdkCalls < MaxSdkCalls
    /\ sdkPc' = [sdkPc EXCEPT ![t] = "idle"]
    /\ UNCHANGED <<osEnvKey, sdkKey, sdkClient, sdkSent, sdkMasked, sdkCalls>>
    /\ UNCHANGED cfgVars
    /\ UNCHANGED sdkRest

\* The process starts with GEMINI_API_KEY in its environment, if configured.
SdkInit ==
    /\ envMulti \in KeyLists
    /\ envSingle \in (IF envMulti = <<>> THEN {NoKey, ShortKey} ELSE {NoKey})
    /\ useSdk \in BOOLEAN
    /\ maxRetries = MaxRetriesCfg /\ scenario = {}
    /\ InitFrames
    /\ ThreadFrames /\ FnFrames /\ PlanFrames /\ EmailFrames
    /\ osEnvKey = envSingle
    /\ sdkPc = [t \in Threads |-> "idle"]
    /\ sdkKey = [t \in Threads |-> NoKey]
    /\ sdkClient = [t \in Threads |-> NoKey]
    /\ sdkSent = [t \in Threads |-> NoKey]
    /\ sdkMasked = [t \in Threads |-> EmptyMask]
    /\ sdkCalls = 0

SdkNext ==
    \/ \E t \in Threads : SBegin(t)
    \/ \E t \in Threads : SSetEnv(t)
    \/ \E t \in Threads : SClient(t)
    \/ \E t \in Threads : SGenerate(t)
    \/ \E t \in Threads : SHttp(t)
    \/ \E t \in Threads : SAgain(t)

SdkSpec == SdkInit /\ [][SdkNext]_vars

\* ------------------------------------------- the stub response on its own
\* The prompts: every set of stub keywords a prompt can hold.
StubPrompts == SUBSET (CostWords \cup OverloadWords)

\* A call of call_llm without keys and without the SDK: the stub is returned.
StubPlain ==
    /\ Len(fnRes) < MaxStubCalls
    /\ fnRes' = Append(fnRes, [StubResponse(fnArg) EXCEPT !.meta.source = "stub"])
    /\ UNCHANGED <<fnArg, cfgVars, llmVars, structVars, poolVars, thrVars, sdkVars, planVars,
                   emVars>>

\* A call of call_llm whose attempts all failed, the last one with e.
StubExhausted(e) ==
    /\ Len(fnRes) < MaxStubCalls
    /\ fnRes' = Append(fnRes, FallbackResult(fnArg, e))
    /\ UNCHANGED <<fnArg, cfgVars, llmVars, structVars, poolVars, thrVars, sdkVars, planVars,
                   emVars>>

StubInit ==
    /\ envMulti = <<>> /\ envSingle = NoKey /\ useSdk = FALSE
    /\ maxRetries = MaxRetriesCfg /\ scenario = {}
    /\ InitFrames
    /\ ThreadFrames /\ SdkFrames /\ PlanFrames /\ EmailFrames
    /\ fnArg \in StubPrompts
    /\ fnRes = <<>>

StubNext ==
    \/ StubPlain
    \/ \E e \in Exceptions : StubExhausted(e)

StubSpec == StubInit /\ [][StubNext]_vars

\* ------------------------------------------------- _map_action on its own
\* The raw actions: what a model may put in its actions list.
TypeVals == {JStr("adjust_budget"), JStr("move_card"), JStr("assign_member"),
             JStr("communication"), JStr("run_analysis"), JStr("fly_to_moon"),
             JStr(""), JNum(3), JNull}
TypeFields == {NoFields} \cup {key :> v : key \in {"action_type", "type", "action"}, v \in TypeVals}
ConfVals == {JNull, JNum(0), JNum(5), JNum(10), JNum(15), JNum(-2), JStr("0.9"),
             JStr("1.5"), JStr("high"), JStr(""), JBool(TRUE), JList(<<>>)}
ConfFields == {NoFields} \cup {"confidence" :> c : c \in ConfVals}
BudgetDetails == [campaign_id |-> JStr("leadgen_nov"), adjustment |-> JNum(-2)]
OtherFields ==
    {NoFields,
     [details |-> JDict(BudgetDetails)],
     [member_id |-> JStr("dev_sana")],
     [task |-> JStr("Check creatives"), title |-> JStr("Creatives")],
     [campaign_id |-> JStr("brand_q4"),
      details |-> JDict([details |-> JDict(BudgetDetails), campaign_id |-> JNull])]}
DictActions == {JDict(tf @@ cf @@ other) : tf \in TypeFields, cf \in ConfFields,
                                            other \in OtherFields}
RawActions ==
    DictActions
    \cup {JStr("Pause the campaign"), JList(<<JStr("a"), JDict(BudgetDetails)>>), JList(<<>>),
          JNum(7), JBool(FALSE), JNull}

\* _map_action is applied to the raw action.
MapApply ==
    /\ fnRes = <<>>
    /\ fnRes' = <<MapAction(fnArg)>>
    /\ UNCHANGED <<fnArg, cfgVars, llmVars, structVars, poolVars, thrVars, sdkVars, planVars,
                   emVars>>

MapInit ==
    /\ envMulti = <<>> /\ envSingle = NoKey /\ useSdk = FALSE
    /\ maxRetries = MaxRetriesCfg /\ scenario = {}
    /\ InitFrames
    /\ ThreadFrames /\ SdkFrames /\ PlanFrames /\ EmailFrames
    /\ fnArg \in RawActions
    /\ fnRes = <<>>

\* _map_action is applied to the action it returned.
MapReapply ==
    /\ Len(fnRes) = 1 /\ fnRes[1].exc = "none"
    /\ fnRes' = Append(fnRes, MapAction(fnRes[1].val))
    /\ UNCHANGED <<fnArg, cfgVars, llmVars, structVars, poolVars, thrVars, sdkVars, planVars,
                   emVars>>

MapNext == MapApply \/ MapReapply

MapSpec == MapInit /\ [][MapNext]_vars

\* ------------------------------------------------ plan_actions on its own
\* The risks of insights: analyze_metrics flags high_cpa with a note that
\* names the CPA; a caller may pass other issues.
RiskLeadgen ==
    JDict([campaign_id |-> JStr("leadgen_nov"), issue |-> JStr("high_cpa"),
           urgency |-> JNum(80), note |-> JStr("CPA 120 > target 80")])
RiskBrand ==
    JDict([campaign_id |-> JStr("brand_q4"), issue |-> JStr("high_cpa"),
           urgency |-> JNum(80), note |-> JStr("CPA 95 > target 60")])
RiskOther == JDict([campaign_id |-> JStr("brand_q4"), issue |-> JStr("low_ctr")])
RiskLists == SeqsUpTo({RiskLeadgen, RiskBrand, RiskOther}, MaxRisks)

\* The stub keywords of the prompt: those of the board and of the insights
\* (the prompt template holds none).
PromptWords(board, risks) ==
    board \cup UNION {IF IsHighCpa(risks[i]) THEN {"high_cpa", "CPA"} ELSE {} :
                         i \in 1..Len(risks)}

\* Texts a backend may answer with.
AgentTexts ==
    {AgentText("json", JDict([actions |-> JList(<<JDict([type |-> JStr("move_card"),
                                                          details |-> JDict(BudgetDetails),
                                                          confidence |-> JNum(9)])>>),
                              summary |-> JStr("ok")])),
     AgentText("fenced", JDict([actions |-> JList(<<JDict([type |-> JStr("assign_member"),
                                                            member_id |-> JStr("dev_sana"),
                                                            confidence |-> JStr("0.9")])>>)])),
     AgentText("json", JDict([actions |-> JList(<<JStr("Pause the campaign"), JNum(7)>>)])),
     AgentText("json", JDict([actions |-> JList(<<JDict([action_type |-> JStr("create_task"),
                                                          confidence |-> JStr("high")])>>),
                              summary |-> JStr("ok")])),
     AgentText("prose_json",
               JDict([campaigns |-> JList(<<JDict([campaign_id |-> JStr("leadgen_nov"),
                                                   risks |-> JList(<<RiskLeadgen>>)]),
                                            JDict([campaign_id |-> JStr("brand_q4"),
                                                   risks |-> RiskBrand])>>)])),
     AgentText("json", JDict([campaigns |-> JNum(2)])),
     AgentText("json", JDict([risks |-> JList(<<RiskLeadgen>>)])),
     AgentText("json", JDict([campaigns |-> JList(<<JDict([campaign_id |-> JStr("brand_q4"),
                                                           risks |-> JList(<<RiskOther>>)])>>)])),
     AgentText("json", JList(<<JStr("Pause the campaign")>>)),
     AgentText("json", JNum(7)),
     AgentText("json", JDict(NoFields)),
     AgentText("prose", JNull),
     AgentText("empty", JNull)}

\* call_llm can reach a backend: it has a key, or the SDK.
PlanBackend == LoadKeyList(envMulti, envSingle) # <<>> \/ useSdk

AgentAcceptsAny(resp) == TRUE

\* The responses _call_llm_with_retries returns at once: a gemini response
\* and a stub without an error.
AgentAccepts(resp) ==
    \/ resp.meta.source = "gemini"
    \/ resp.meta.source = "stub" /\ "error" \notin DOMAIN resp.meta

\* What a call of call_llm by _call_llm_with_retries leaves alone, and what
\* it counts: the calls of call_llm and the n backend invocations of this one.
planCallRest == <<llmPc, prompt, pool, attempt, lastExc, ret, rotations, sleeps, usedKeys,
                  lastReply, poolStart, stage, raw, parsed, exOk, origins>>
PlanCounts(n) == calls' = calls + 1 /\ invocations' = invocations + n

\* One iteration of _call_llm_with_retries in which call_llm returns resp
\* after n backend invocations: an accepted response ends the loop, any other
\* is kept as last_exc and slept on.
PlanGot(resp, n) ==
    /\ planPc = "calling"
    /\ planLast' = [kind |-> "resp", resp |-> resp]
    /\ PlanCounts(n)
    /\ IF AgentAccepts(resp)
       THEN /\ planPc' = "extract"
            /\ UNCHANGED <<planTry, planSleeps>>
       ELSE /\ planTry' = planTry + 1
            /\ planSleeps' = Append(planSleeps, AgentBackoff * (2 ^ planTry))
            /\ planPc' = IF planTry + 1 < AgentAttempts THEN "calling" ELSE "extract"
    /\ UNCHANGED <<planBoard, planRisks, planOut>>
    /\ UNCHANGED <<cfgVars, planCallRest, poolVars, thrVars, sdkVars, fnVars, emVars>>

\* call_llm returns the answer of the backend, got at one of its attempts.
PlanCallOk(t) ==
    /\ PlanBackend
    /\ \E n \in 1..LoopCeiling(maxRetries) :
           PlanGot([text |-> t, meta |-> [model |-> GEMINI_MODEL, source |-> "gemini"]], n)

\* call_llm has no key and no SDK and returns the stub.
PlanCallStub ==
    /\ ~PlanBackend
    /\ PlanGot([text |-> StubText(PromptWords(planBoard, planRisks)),
                meta |-> [source |-> "stub"]], 0)

\* Every attempt of call_llm failed, the last with e: the stub-fallback.
PlanCallExhausted(e) ==
    /\ PlanBackend
    /\ PlanGot([text |-> StubText(PromptWords(planBoard, planRisks)),
                meta |-> [source |-> "stub-fallback", error |-> ErrorText(e)]],
               LoopCeiling(maxRetries))

\* An exception leaves call_llm (time.sleep raises on a negative
\* LLM_BACKOFF_BASE, after the first failed invocation): it is kept as
\* last_exc and slept on; when it is the last one, _call_llm_with_retries
\* raises.
PlanCallRaises ==
    /\ planPc = "calling" /\ PlanBackend
    /\ planLast' = [kind |-> "exc", resp |-> NoResp]
    /\ PlanCounts(1)
    /\ planTry' = planTry + 1
    /\ planSleeps' = Append(planSleeps, AgentBackoff * (2 ^ planTry))
    /\ planPc' = IF planTry + 1 < AgentAttempts THEN "calling" ELSE "hard"
    /\ UNCHANGED <<planBoard, planRisks, planOut>>
    /\ UNCHANGED <<cfgVars, planCallRest, poolVars, thrVars, sdkVars, fnVars, emVars>>

\* plan_actions after a response: extraction, normalization or fallback.
PlanFinish ==
    /\ planPc = "extract"
    /\ LET r == PlanFromParsed(AgentExtract(planLast.resp.text), planRisks)
       IN IF r.exc = "none"
          THEN /\ planOut' = [plan |-> r.val, llm_raw |-> planLast.resp]
               /\ planPc' = "done"
          ELSE /\ planOut' = [exc |-> r.exc]
               /\ planPc' = "raised"
    /\ UNCHANGED <<planBoard, planRisks, planTry, planLast, planSleeps>>
    /\ UNCHANGED <<cfgVars, llmVars, structVars, poolVars, thrVars, sdkVars, fnVars, emVars>>

\* plan_actions after _call_llm_with_retries raised: the hard fallback.
PlanHardFallback ==
    /\ planPc = "hard"
    /\ planOut' = [plan |-> InsightsPlan(planRisks),
                   llm_raw |-> [text |-> AgentText("prose", JNull),
                                meta |-> [source |-> "error", error |-> {"failed"}]]]
    /\ planPc' = "done"
    /\ UNCHANGED <<planBoard, planRisks, planTry, planLast, planSleeps>>
    /\ UNCHANGED <<cfgVars, llmVars, structVars, poolVars, thrVars, sdkVars, fnVars, emVars>>

\* plan_actions is called with a board, insights and use_llm, which no line
\* of plan_actions reads.
PlanInit ==
    /\ envMulti \in {<<>>, <<LongKey>>} /\ envSingle = NoKey /\ useSdk = FALSE
    /\ maxRetries \in {0, MaxRetriesCfg} /\ scenario = {}
    /\ InitFrames
    /\ ThreadFrames /\ SdkFrames /\ EmailFrames
    /\ fnArg \in [use_llm : BOOLEAN] /\ fnRes = <<>>
    /\ planBoard \in Scenarios
    /\ planRisks \in RiskLists
    /\ planPc = "calling" /\ planTry = 0
    /\ planLast = [kind |-> "none", resp |-> NoResp]
    /\ planSleeps = <<>>
    /\ planOut = NoPlanOut

PlanNext ==
    \/ \E t \in AgentTexts : PlanCallOk(t)
    \/ PlanCallStub
    \/ \E e \in Exceptions : PlanCallExhausted(e)
    \/ PlanCallRaises
    \/ PlanFinish
    \/ PlanHardFallback

PlanSpec == PlanInit /\ [][PlanNext]_vars

\* ------------------------------------ generate_email_interactive on its own
\* Values of email JSON.
CleanEmail ==
    JDict([to |-> PyText(Line("team@example.com")), subject |-> PyText(Line("Budget")),
           body |-> PyText(<<<<"Hello", "team">>, <<"Spend", "is", "fine">>>>)])
ParseFailed == JDict([actions |-> JList(<<>>), summary |-> PyText(Line("parse_failed"))])

\* Texts a backend may answer with.
EmailTexts ==
    {RawText("json", CleanEmail, Line("{email}")),
     RawText("json", JDict([recipient |-> PyText(Line("lead@example.com")),
                            subject |-> PyText(Line("Budget")),
                            body |-> PyText(<<<<"finish_reason", "MAX_TOKENS">>>>)]),
             <<<<"{", "finish_reason", "MAX_TOKENS", "}">>>>),
     RawText("json", JDict([to |-> PyText(Line("team@example.com")),
                            subject |-> PyText(Line("Budget")), body |-> JNum(70)]),
             Line("{email}")),
     RawText("prose_json", JDict([subject |-> PyText(Line("Budget"))]),
             <<<<"Here", "you", "go">>, <<>>, <<"{subject}">>>>),
     RawText("json", JList(<<CleanEmail>>), Line("[{email}]")),
     RawText("json", JNum(70), Line("7")),
     RawText("prose", JNull, <<<<"sdk_http_response", "Candidate(", "MAX_TOKENS">>>>),
     RawText("prose", JNull, <<<<"GenerateContentResponse">>, <<"Hello", "team">>>>),
     RawText("prose", JNull, <<<<>>>>),
     RawText("empty", JNull, <<>>)}

\* Texts the worker calls are answered with.
WorkerTexts ==
    {t \in EmailTexts : t.form = "prose_json" \/ (t.form = "json" /\ t.value.k = "list")
                        \/ (t.form = "prose" /\ Len(t.lines) = 2)}

\* What call_llm_structured returns on a primary response with text t: the
\* parse of t; when t holds none, the parse of the repair or regeneration
\* response, or the parse_failed object.
StructuredReturns(t) ==
    IF StructuredParse(t) # JNull THEN {[parsed |-> StructuredParse(t), raw |-> t]}
    ELSE {[parsed |-> CleanEmail, raw |-> t], [parsed |-> ParseFailed, raw |-> t]}

\* _worker_prompt, _merge_prompt and the prompt of the repair call
WorkerPrompt(hint) == [sys |-> "email-writing assistant", hint |-> hint, notes |-> "notes"]
MergePromptShort(drafts, hint) ==
    [sys |-> "email merger", drafts |-> SubSeq(drafts, 1, Len(drafts) - 1), hint |-> hint]
MergePrompt(drafts, hint) == [sys |-> "email merger", drafts |-> drafts, hint |-> hint]
RepairEmailPrompt(raws) ==
    [sys |-> "messy text", workers |-> [i \in 1..Len(raws) |-> raws[i].lines]]

emRest == <<cfgVars, llmVars, structVars, poolVars, thrVars, sdkVars, fnVars, planVars>>

\* The loop calls call_llm_structured for the next worker.
EmIssueWorker ==
    /\ emPc = "workers" /\ emInFlight = NoCall
    /\ Len(emParsed) < emWorkers
    /\ emInFlight' = [kind |-> "worker", prompt |-> WorkerPrompt(emHint),
                      max_output_tokens |-> WorkerTokens,
                      repair_max_tokens |-> EmailRepairMax]
    /\ emCalls' = Append(emCalls, emInFlight')
    /\ UNCHANGED <<emHint, emWorkers, emPc, emParsed, emRaws, emClean, emMerge, emFinal, emExc>>
    /\ UNCHANGED emRest

\* The call of a worker returns r.
EmWorkerReturns(r) ==
    /\ emPc = "workers" /\ emInFlight # NoCall
    /\ emParsed' = Append(emParsed, OrEmptyDict(r.parsed))
    /\ emRaws' = Append(emRaws, r.raw)
    /\ emInFlight' = NoCall
    /\ UNCHANGED <<emHint, emWorkers, emPc, emCalls, emClean, emMerge, emFinal, emExc>>
    /\ UNCHANGED emRest

\* After the loop: the drafts are normalized and the merge call is made.
EmIssueMerge ==
    /\ emPc = "workers" /\ emInFlight = NoCall
    /\ Len(emParsed) = emWorkers
    /\ emClean' = [i \in 1..Len(emParsed) |->
                       CleanWorker(NormalizeParsed(emParsed[i], emRaws[i], emHint),
                                   emRaws[i], emHint)]
    /\ emInFlight' = [kind |-> "merge", prompt |-> MergePrompt(emClean', emHint),
                      max_output_tokens |-> MergeTokens,
                      repair_max_tokens |-> EmailRepairMax]
    /\ emCalls' = Append(emCalls, emInFlight')
    /\ emPc' = "merge"
    /\ UNCHANGED <<emHint, emWorkers, emParsed, emRaws, emMerge, emFinal, emExc>>
    /\ UNCHANGED emRest

\* The function goes on with the draft merged: it raises when the check for
\* bad words raises, makes the repair call when the draft holds a bad word,
\* and goes to the log otherwise.
EmAfterMerge(merged) ==
    /\ emFinal' = merged
    /\ IF Corrupted(merged) = "TypeError"
       THEN /\ emPc' = "raised" /\ emExc' = "TypeError"
            /\ emInFlight' = NoCall
            /\ UNCHANGED emCalls
       ELSE IF Corrupted(merged) = "yes"
       THEN /\ emPc' = "repair"
            /\ emInFlight' = [kind |-> "repair", prompt |-> RepairEmailPrompt(emRaws),
                              max_output_tokens |-> RepairTokens,
                              repair_max_tokens |-> EmailRepairMax]
            /\ emCalls' = Append(emCalls, emInFlight')
            /\ UNCHANGED emExc
       ELSE /\ emPc' = "log"
            /\ emInFlight' = NoCall
            /\ UNCHANGED <<emCalls, emExc>>

\* The merge call returns r, normalized being its normalization.
EmMerged(normalized) ==
    IF normalized.exc # "none"
    THEN /\ emPc' = "raised" /\ emExc' = normalized.exc
         /\ emInFlight' = NoCall
         /\ UNCHANGED <<emCalls, emFinal>>
    ELSE EmAfterMerge(normalized.val)

EmMergeReturns(r) ==
    /\ emPc = "merge" /\ emInFlight # NoCall
    /\ emMerge' = r
    /\ EmMerged(NormalizeParsed(OrEmptyDict(r.parsed), r.raw, emHint))
    /\ UNCHANGED <<emHint, emWorkers, emParsed, emRaws, emClean>>
    /\ UNCHANGED emRest

\* The repair call returns r, normalized being its normalization: a draft
\* with a body replaces final and is marked repair_used.
EmRepaired(normalized) ==
    IF normalized.exc # "none"
    THEN /\ emPc' = "raised" /\ emExc' = normalized.exc
         /\ UNCHANGED emFinal
    ELSE /\ emPc' = "log"
         /\ emFinal' = IF Truthy(normalized.val.body)
                       THEN [normalized.val EXCEPT
                                 !.meta = ("repair_used" :> JBool(TRUE)) @@ @]
                       ELSE emFinal
         /\ UNCHANGED emExc

EmRepairReturns(r) ==
    /\ emPc = "repair" /\ emInFlight # NoCall
    /\ EmRepaired(NormalizeParsed(OrEmptyDict(r.parsed), r.raw, emHint))
    /\ emInFlight' = NoCall
    /\ UNCHANGED <<emHint, emWorkers, emCalls, emParsed, emRaws, emClean, emMerge>>
    /\ UNCHANGED emRest

\* _save_json writes the log record: the path is put in the draft, which is
\* returned; when the write fails, its OSError leaves the function.
EmSaveLog(written) ==
    /\ emPc = "log"
    /\ IF written
       THEN /\ emFinal' = [emFinal EXCEPT !.meta = ("log_path" :> PyText(Line("logs/emails"))) @@ @]
            /\ emPc' = "done"
            /\ UNCHANGED emExc
       ELSE /\ emPc' = "raised" /\ emExc' = "OSError"
            /\ UNCHANGED emFinal
    /\ UNCHANGED <<emHint, emWorkers, emInFlight, emCalls, emParsed, emRaws, emClean, emMerge>>
    /\ UNCHANGED emRest

\* generate_email_interactive is called.
EmailInit ==
    /\ envMulti = <<>> /\ envSingle = NoKey /\ useSdk = FALSE
    /\ maxRetries = MaxRetriesCfg /\ scenario = {}
    /\ InitFrames
    /\ ThreadFrames /\ SdkFrames /\ FnFrames /\ PlanFrames
    /\ emHint \in {PyText(<<>>), PyText(<<<<"Q4", "update">>>>),
                   PyText(<<<<"MAX_TOKENS", "report">>>>)}
    /\ emWorkers \in 0..MaxDrafts
    /\ emPc = "workers" /\ emInFlight = NoCall
    /\ emCalls = <<>> /\ emParsed = <<>> /\ emRaws = <<>> /\ emClean = <<>>
    /\ emMerge = NoReturn
    /\ emFinal = NoDraft /\ emExc = "none"

EmailNext ==
    \/ EmIssueWorker
    \/ \E t \in WorkerTexts : \E r \in StructuredReturns(t) : EmWorkerReturns(r)
    \/ EmIssueMerge
    \/ \E t \in EmailTexts : \E r \in StructuredReturns(t) : EmMergeReturns(r)
    \/ \E t \in EmailTexts : \E r \in StructuredReturns(t) : EmRepairReturns(r)
    \/ \E written \in BOOLEAN : EmSaveLog(written)

EmailSpec == EmailInit /\ [][EmailNext]_vars

\* ------------------------------- the token budgets of call_llm_structured
\* The budgets callers pass: the defaults, those of the email tool, the
\* per-scenario budgets of the demo and a budget typed by the user, with the
\* repair budget of the environment.
Budgets(max, repair) == [max_output_tokens |-> max, repair_max_tokens |-> repair]
BudgetChoices ==
    {Budgets(max, repair) : max \in {100, 200, WorkerTokens, RepairTokens, DefaultMaxTokens, 1400},
                            repair \in {EmailRepairMax, DefaultRepairTokens, 400}}

StageBudgetRegenFull(step, budgets) ==
    IF step = "repair" THEN budgets.repair_max_tokens ELSE budgets.max_output_tokens

\* The max_output_tokens that call_llm_structured passes to call_llm in a
\* stage.
StageBudget(step, budgets) ==
    IF step = "primary" THEN budgets.max_output_tokens ELSE budgets.repair_max_tokens

\* call_llm_structured makes the call of a step; gotJson tells whether
\* extract_json_from_text parses its text.
BudgetCall(step, gotJson) ==
    /\ fnRes' = Append(fnRes, [stage |-> step,
                               max_output_tokens |-> StageBudget(step, fnArg),
                               parsed |-> gotJson])
    /\ UNCHANGED <<fnArg, cfgVars, llmVars, structVars, poolVars, thrVars, sdkVars, planVars,
                   emVars>>

BudgetPrimary(gotJson) == fnRes = <<>> /\ BudgetCall("primary", gotJson)
BudgetRepair(gotJson) ==
    /\ Len(fnRes) = 1 /\ ~fnRes[1].parsed
    /\ BudgetCall("repair", gotJson)
BudgetRegen(gotJson) ==
    /\ Len(fnRes) = 2 /\ ~fnRes[2].parsed
    /\ BudgetCall("regenerate", gotJson)

BudgetInit ==
    /\ envMulti = <<>> /\ envSingle = NoKey /\ useSdk = FALSE
    /\ maxRetries = MaxRetriesCfg /\ scenario = {}
    /\ InitFrames
    /\ ThreadFrames /\ SdkFrames /\ PlanFrames /\ EmailFrames
    /\ fnArg \in BudgetChoices
    /\ fnRes = <<>>

BudgetNext ==
    \/ \E gotJson \in BOOLEAN : BudgetPrimary(gotJson)
    \/ \E gotJson \in BOOLEAN : BudgetRepair(gotJson)
    \/ \E gotJson \in BOOLEAN : BudgetRegen(gotJson)

BudgetSpec == BudgetInit /\ [][BudgetNext]_vars

\* ------------------------------------------ extraction from unfenced text
\* The longest text that follows the object.
MaxTail == 2

TailTokens == {"prose", "{", "}", "[", "]"}

\* A response text: a valid JSON object and the text that follows it.
ExtractObjects == {<<"{", "summary:", "ok", "}">>,
                   <<"{", "actions:", "[", "act", "]", ",", "summary:", "ok", "}">>}
ExtractTails ==
    SeqsUpTo(TailTokens, MaxTail)
        \cup {<<"prose", "{", "summary:", "no_action", "}">>, <<"{", "summary:", "no_action", "}">>}

\* A function is applied to the text once.
Applied(by) == \E i \in 1..Len(fnRes) : fnRes[i].by = by

extractRest == <<fnArg, cfgVars, llmVars, structVars, poolVars, thrVars, sdkVars, planVars,
                 emVars>>

\* llm_client.extract_json_from_text is applied to the text.
ExtractByClient ==
    /\ ~Applied("llm_client")
    /\ fnRes' = Append(fnRes, [by |-> "llm_client",
                               parsed |-> ExtractJson(fnArg.obj \o fnArg.tail)])
    /\ UNCHANGED extractRest

\* strategy_agent._extract_json is applied to the text.
ExtractByAgent ==
    /\ ~Applied("strategy_agent")
    /\ fnRes' = Append(fnRes, [by |-> "strategy_agent",
                               parsed |-> ExtractJsonAgent(fnArg.obj \o fnArg.tail)])
    /\ UNCHANGED extractRest

ExtractInit ==
    /\ envMulti = <<>> /\ envSingle = NoKey /\ useSdk = FALSE
    /\ maxRetries = MaxRetriesCfg /\ scenario = {}
    /\ InitFrames
    /\ ThreadFrames /\ SdkFrames /\ PlanFrames /\ EmailFrames
    /\ fnArg \in [obj : ExtractObjects, tail : ExtractTails]
    /\ fnRes = <<>>

ExtractNext == ExtractByClient \/ ExtractByAgent

ExtractSpec == ExtractInit /\ [][ExtractNext]_vars

\* ----------------------------------------------------------- execute_plan
\* The longest plan and the number of execute_plan calls on the same stores.
MaxPlan == 2
MaxExecRuns == 2

\* The task store (task ids with their assignee, in insertion order, and the
\* number of generated ids) and the daily spend of the campaigns.
NoStores == [tasks |-> <<>>, made |-> 0, spend |-> [c \in {"leadgen_nov"} |-> 1000]]

\* str(uuid.uuid4()): a fresh id.
UuidNames == <<"uuid1", "uuid2", "uuid3", "uuid4", "uuid5", "uuid6", "uuid7", "uuid8", "uuid9",
               "uuid10", "uuid11", "uuid12">>
Uuid(n) == JStr(UuidNames[n])

\* p.get("details") or {}
DetailsOf(p) == IF Truthy(Get(p, "details")) THEN Get(p, "details") ELSE JDict(NoFields)

\* _build_task_payload_from_details
BuildTaskPayload(p) ==
    [task |-> OrChain(<<Get(p, "task"), Get(DetailsOf(p), "card_title"),
                        Get(DetailsOf(p), "task"), Get(DetailsOf(p), "description"),
                        Get(DetailsOf(p), "title"), JStr("Auto-created task")>>),
     assignee |-> OrChain(<<Get(p, "assignee"), Get(DetailsOf(p), "assignee"), Get(p, "to"),
                            Get(DetailsOf(p), "member_id"), Get(DetailsOf(p), "to")>>),
     task_id |-> Get(p, "task_id")]

\* TaskAPI.create_task: the stores after it.
CreateTask(payload, st) ==
    LET fresh == ~Truthy(payload.task_id)
        tid == IF fresh THEN Uuid(st.made + 1) ELSE payload.task_id
        entry == [task_id |-> tid, assignee |-> payload.assignee]
        at == {i \in 1..Len(st.tasks) : st.tasks[i].task_id = tid}
    IN [st EXCEPT !.tasks = IF at = {} THEN Append(st.tasks, entry)
                            ELSE [i \in 1..Len(st.tasks) |->
                                     IF i \in at THEN entry ELSE st.tasks[i]],
                  !.made = IF fresh THEN st.made + 1 ELSE st.made]

\* TaskAPI.find_task_by_assignee: the id of the first task of that assignee
\* (no fixture name is a part of another one), None if there is none.
FindTaskByAssignee(name, st) ==
    LET at == {i \in 1..Len(st.tasks) : st.tasks[i].assignee = name}
    IN IF ~Truthy(name) \/ at = {} THEN JNull
       ELSE st.tasks[CHOOSE i \in at : \A j \in at : i <= j].task_id

\* TaskAPI.reassign
Reassign(tid, to, st) ==
    [st EXCEPT !.tasks = [i \in 1..Len(st.tasks) |->
                             IF st.tasks[i].task_id = tid
                             THEN [st.tasks[i] EXCEPT !.assignee = to] ELSE st.tasks[i]]]
HasTask(tid, st) == \E i \in 1..Len(st.tasks) : st.tasks[i].task_id = tid

\* AnalyticsAPI.adjust_budget: the spend is scaled by 1 + adjustment.
AdjustBudget(cid, adj, st) ==
    [st EXCEPT !.spend = [c \in DOMAIN st.spend |->
                             IF JStr(c) = cid THEN (st.spend[c] * (10 + adj.n)) \div 10
                             ELSE st.spend[c]]]
HasCampaign(cid, st) == cid.k = "str" /\ cid.s \in DOMAIN st.spend

\* One result of execute_plan: the action, whether it was carried out to a
\* successful result, and the reason of a refusal.
ExecResult(p, ok, reason, st) ==
    [exc |-> "none", result |-> [action |-> p, ok |-> ok, reason |-> reason], st |-> st]

\* The reassign_task branch once the task id is settled.
ExecReassign(p, tid, to, st) ==
    IF Truthy(tid)
    THEN IF HasTask(tid, st) THEN ExecResult(p, TRUE, "", Reassign(tid, to, st))
         ELSE ExecResult(p, FALSE, "not_found", st)
    ELSE ExecResult(p, TRUE, "created_task", CreateTask(BuildTaskPayload(p), st))

ExecEmailSent(p, st) == ExecResult(p, TRUE, "", st)

\* The draft_email / send_email branch: EmailAPI has no attribute send.
ExecEmail(p, st) ==
    [exc |-> "AttributeError", result |-> [action |-> p, ok |-> FALSE, reason |-> ""],
     st |-> st]

\* One iteration of the loop of execute_plan.
ExecOne(p, st) ==
    LET t == Get(p, "action_type")
        d == DetailsOf(p)
    IN CASE t = JStr("create_task") ->
                ExecResult(p, TRUE, "", CreateTask(BuildTaskPayload(p), st))
         [] t = JStr("adjust_budget") ->
                LET cid == OrChain(<<Get(p, "campaign_id"), Get(d, "campaign_id")>>)
                    adj == OrChain(<<Get(p, "adjustment"), Get(d, "adjustment")>>)
                IN IF cid.k = "null" \/ adj.k = "null"
                   THEN ExecResult(p, FALSE, "missing_campaign_or_adjustment", st)
                   ELSE IF HasCampaign(cid, st)
                        THEN ExecResult(p, TRUE, "", AdjustBudget(cid, adj, st))
                        ELSE ExecResult(p, FALSE, "campaign_not_found", st)
         [] t = JStr("reassign_task") ->
                LET given == OrChain(<<Get(p, "task_id"), Get(d, "task_id")>>)
                    to == OrChain(<<Get(p, "to"), Get(d, "to"), Get(p, "assignee")>>)
                    from == OrChain(<<Get(p, "from"), Get(d, "from"), Get(d, "member_id")>>)
                    found == IF Truthy(from) THEN FindTaskByAssignee(from, st) ELSE JNull
                IN ExecReassign(p, IF ~Truthy(given) /\ Truthy(found) THEN found ELSE given,
                                to, st)
         [] t \in {JStr("draft_email"), JStr("send_email")} -> ExecEmail(p, st)
         [] OTHER -> ExecResult(p, FALSE, "unknown_action", st)

\* execute_plan from action i on: the results appended until the end of the
\* plan or the iteration that raises.
RECURSIVE ExecFrom(_, _, _)
ExecFrom(plan, i, acc) ==
    IF i > Len(plan) \/ acc.exc # "none" THEN acc
    ELSE LET one == ExecOne(plan[i], acc.st)
         IN ExecFrom(plan, i + 1,
                     [exc |-> one.exc,
                      results |-> IF one.exc = "none" THEN Append(acc.results, one.result)
                                  ELSE acc.results,
                      st |-> one.st])

\* execute_plan: the results returned (or the exception) and the stores.
ExecutePlan(plan, st) == ExecFrom(plan, 1, [exc |-> "none", results |-> <<>>, st |-> st])

\* Canonical actions: what _map_action makes of these raw actions.
ExecRaws ==
    {JDict([action_type |-> JStr("adjust_budget"), details |-> JDict(BudgetDetails)]),
     JDict([action_type |-> JStr("adjust_budget")]),
     JDict([action_type |-> JStr("create_task"), task |-> JStr("Check creatives"),
            assignee |-> JStr("dev_ajay")]),
     JDict([action_type |-> JStr("reassign_task"), task_id |-> JStr("t123"),
            to |-> JStr("dev_sana")]),
     JDict([action_type |-> JStr("assign_member"), from |-> JStr("dev_ajay"),
            to |-> JStr("dev_sana")]),
     JDict([action_type |-> JStr("draft_email"), to |-> JStr("client@example.com"),
            subject |-> JStr("Timeline update")]),
     JDict([action_type |-> JStr("schedule_post")]),
     JDict([action_type |-> JStr("pause_campaign")]),
     JDict([action_type |-> JStr("run_analysis")])}
ExecActions == {MapAction(r).val : r \in ExecRaws}

\* The stores an execute_plan call starts from.
StoresBefore == IF fnRes = <<>> THEN NoStores ELSE fnRes[Len(fnRes)].st

\* execute_plan is called with the plan.
ExecRun ==
    /\ Len(fnRes) < MaxExecRuns
    /\ fnRes' = Append(fnRes, ExecutePlan(fnArg, StoresBefore))
    /\ UNCHANGED <<fnArg, cfgVars, llmVars, structVars, poolVars, thrVars, sdkVars, planVars,
                   emVars>>

ExecInit ==
    /\ envMulti = <<>> /\ envSingle = NoKey /\ useSdk = FALSE
    /\ maxRetries = MaxRetriesCfg /\ scenario = {}
    /\ InitFrames
    /\ ThreadFrames /\ SdkFrames /\ PlanFrames /\ EmailFrames
    /\ fnArg \in SeqsUpTo(ExecActions, MaxPlan)
    /\ fnRes = <<>>

ExecNext == ExecRun

ExecSpec == ExecInit /\ [][ExecNext]_vars

\* ------------------------------------------------------------ the log files
\* The number of logging operations of one process.
MaxSaves == 2

\* An SDK response object: json cannot encode it.
JObj == [k |-> "obj"]

\* json.dump accepts the value (it raises TypeError on an SDK object,
\* leaving the part of the file written so far).
RECURSIVE Serializable(_)
Serializable(v) ==
    CASE v.k = "obj" -> FALSE
      [] v.k = "list" -> \A i \in 1..Len(v.items) : Serializable(v.items[i])
      [] v.k = "dict" -> \A key \in DOMAIN v.m : Serializable(v.m[key])
      [] OTHER -> TRUE

\* A file after json.dump(value, f): complete when the value was encoded.
WrittenFile(dir, v) == [dir |-> dir, complete |-> Serializable(v), value |-> v]

\* Two json.dump calls in one try block: the second file is written when the
\* first dump did not raise.
WrittenPair(first, second) == IF first.complete THEN <<first, second>> ELSE <<first>>

\* d[key] = v
With(d, key, v) == JDict((key :> v) @@ d.m)

GeminiMeta ==
    JDict([model |-> JStr(GEMINI_MODEL), source |-> JStr("gemini"),
           api_key_masked |-> JStr("...abcdef")])

\* The result of call_llm (and the llm_raw of the hard fallback of
\* plan_actions) by the origin of the response.
LlmResult(origin) ==
    CASE origin = "sdk" -> JDict([text |-> JStr("reply"), raw |-> JObj, meta |-> GeminiMeta])
      [] origin = "http" ->
            JDict([text |-> JStr("reply"), raw |-> JDict([output |-> JStr("reply")]),
                   meta |-> GeminiMeta])
      [] origin = "stub" ->
            JDict([text |-> JStr("{plan}"), meta |-> JDict([source |-> JStr("stub")])])
      [] origin = "stub-fallback" ->
            JDict([text |-> JStr("{plan}"),
                   meta |-> JDict([source |-> JStr("stub-fallback"),
                                   error |-> JStr("timeout")])])
      [] origin = "error" ->
            JDict([text |-> JStr("LLM call failed"),
                   meta |-> JDict([source |-> JStr("error"),
                                   error |-> JStr("LLM call failed")])])

SanitizeKeepsRaw(r) == IF Truthy(r) THEN r ELSE JNull

\* _sanitize_llm_raw
SanitizeLlmRaw(r) ==
    IF ~Truthy(r) THEN JNull
    ELSE IF r.k # "dict" THEN JDict([raw_str |-> JStr("repr")])
    ELSE JDict((IF "raw_str" \in DOMAIN r.m THEN "raw_str" :> r.m["raw_str"] ELSE NoFields)
               @@ (IF "raw" \notin DOMAIN r.m THEN NoFields
                   ELSE IF Serializable(r.m["raw"]) THEN "raw" :> r.m["raw"]
                   ELSE "raw_str" :> JStr("repr"))
               @@ [key \in {"text", "meta"} \cap DOMAIN r.m |-> r.m[key]])

\* The log of run_cycle; board, insights, plan and results are made of
\* decoded JSON, strings and numbers only.
CycleLog(llmRaw) ==
    JDict([date |-> JStr("2025-11-30"),
           board |-> JDict([date |-> JStr("2025-11-30"), inputs |-> JDict(NoFields),
                            analytics |-> JDict(NoFields)]),
           insights |-> JDict([campaign_insights |-> JList(<<>>), risks |-> JList(<<>>)]),
           plan |-> JList(StubPlan({})),
           results |-> JDict([results |-> JList(<<JDict([ok |-> JBool(TRUE)])>>)]),
           llm_raw |-> SanitizeLlmRaw(llmRaw)])

\* RookOrchestrator._save_logs: the llm sample, then the decision.
SaveLogs(log) ==
    WrittenPair(WrittenFile("llm_samples", Get(log, "llm_raw")), WrittenFile("decisions", log))

\* The raw -> raw_str replacement of sanitize_llm_raw_in_result, done again
\* on the sample before it is saved.
DropRaw(lr) ==
    IF lr.k = "dict" /\ Get(lr, "raw").k # "null"
    THEN With(With(lr, "raw_str", JStr("reply")), "raw", JNull)
    ELSE lr

\* run_demo_from_path with use_llm: the result after the call of
\* call_llm_structured, whose raw response is structRaw (None: it raised).
DemoWithLlm(result, structRaw) ==
    IF structRaw.k # "null"
    THEN With(With(result, "llm_raw", structRaw), "llm_parsed", JDict([actions |-> JList(<<>>)]))
    ELSE With(result, "llm_raw", With(Get(result, "llm_raw"), "error", JStr("boom")))

\* The sample of run_demo_from_path: the llm_raw of the result (the same
\* dict, so the result gets the parsed plan as well) or a new empty dict.
DemoSample(result) ==
    LET lr == IF Truthy(Get(result, "llm_raw")) THEN Get(result, "llm_raw") ELSE JDict(NoFields)
    IN DropRaw(IF "llm_parsed" \in DOMAIN result.m
               THEN With(lr, "parsed", result.m["llm_parsed"]) ELSE lr)

\* The saving part of run_demo_from_path for the sanitized result: nothing is
\* written when printing the result raised.
DemoSave(result, sample) ==
    IF ~Serializable(result) THEN <<>>
    ELSE WrittenPair(WrittenFile("llm_samples", sample),
                     WrittenFile("decisions",
                                 IF Truthy(Get(result, "llm_raw"))
                                 THEN With(result, "llm_raw", sample) ELSE result))

\* run_demo_from_path(use_llm, save_logs=True) on the log of run_cycle
DemoFiles(result) == DemoSave(result, DemoSample(result))
RunDemo(log, useLlm, structRaw) ==
    DemoFiles(With(IF useLlm THEN DemoWithLlm(log, structRaw) ELSE log, "llm_raw",
                   DropRaw(Get(IF useLlm THEN DemoWithLlm(log, structRaw) ELSE log,
                               "llm_raw"))))

\* The log record of generate_email_interactive and its file.
EmailRecord(final, workers) ==
    JDict([final |-> final, workers |-> JList(workers),
           raw_workers |-> JList([i \in 1..Len(workers) |-> JStr("reply")]),
           raw_merge_meta |-> JDict(NoFields), created_at |-> JStr("2025-11-30T10:00:00")])

LogOrigins == {"sdk", "http", "stub", "stub-fallback", "error"}
StructOrigins == {"sdk", "http", "stub-fallback", "raises"}
StructRaw(origin) == IF origin = "raises" THEN JNull ELSE LlmResult(origin)

logRest == <<fnArg, cfgVars, llmVars, structVars, poolVars, thrVars, sdkVars, planVars, emVars>>

\* run_cycle(save_logs=True); completes tells whether plan_actions and
\* execute_plan returned (nothing is logged when one of them raises).
LogRunCycle ==
    /\ Len(fnRes) < MaxSaves
    /\ fnRes' = Append(fnRes, [by |-> "run_cycle",
                               files |-> IF fnArg.completes
                                         THEN SaveLogs(CycleLog(LlmResult(fnArg.origin)))
                                         ELSE <<>>])
    /\ UNCHANGED logRest

\* run_demo_from_path(use_llm, save_logs=True)
LogRunDemo(useLlm) ==
    /\ Len(fnRes) < MaxSaves
    /\ fnRes' = Append(fnRes, [by |-> IF useLlm THEN "run_demo_llm" ELSE "run_demo",
                               files |-> IF fnArg.completes
                                         THEN RunDemo(CycleLog(LlmResult(fnArg.origin)), useLlm,
                                                      StructRaw(fnArg.structured))
                                         ELSE <<>>])
    /\ UNCHANGED logRest

\* generate_email_interactive up to _save_json, for a final draft and the
\* worker drafts.
LogEmail(workers) ==
    /\ Len(fnRes) < MaxSaves
    /\ fnRes' = Append(fnRes, [by |-> "email",
                               files |-> <<WrittenFile("emails",
                                                       EmailRecord(CleanEmail, workers))>>])
    /\ UNCHANGED logRest

LogInit ==
    /\ envMulti = <<>> /\ envSingle = NoKey /\ useSdk = FALSE
    /\ maxRetries = MaxRetriesCfg /\ scenario = {}
    /\ InitFrames
    /\ ThreadFrames /\ SdkFrames /\ PlanFrames /\ EmailFrames
    /\ fnArg \in [origin : LogOrigins, structured : StructOrigins, completes : BOOLEAN]
    /\ fnRes = <<>>

LogNext ==
    \/ LogRunCycle
    \/ \E useLlm \in BOOLEAN : LogRunDemo(useLlm)
    \/ \E workers \in {<<>>, <<CleanEmail>>} : LogEmail(workers)

LogSpec == LogInit /\ [][LogNext]_vars

\* -------------------------------------------------------- the approval gate
\* The threshold run_cycle passes, in tenths.
GateThreshold == 6

\* The confidence the gate reads: 0.5 when it is missing or float() raises.
GateConf(a) ==
    IF Get(a, "confidence").k = "null" \/ PyFloat(Get(a, "confidence")).exc # "none" THEN 5
    ELSE PyFloat(Get(a, "confidence")).n

\* The condition under which _filter_and_approve_actions asks.
NeedsApproval(a, threshold) == GateConf(a) <= threshold

\* _prompt_user_approve: AUTO_APPROVE, then AUTO_REJECT, then the answer typed.
PromptUserApprove(auto, answer) ==
    IF auto = "approve" THEN TRUE ELSE IF auto = "reject" THEN FALSE ELSE answer

\* _filter_and_approve_actions: the indices asked about and the approved plan.
FilterAndApprove(plan, threshold, auto, answers) ==
    LET asked == {i \in 1..Len(plan) : NeedsApproval(plan[i], threshold)}
    IN [asked |-> asked,
        approved |-> SeqOfIdx(plan, {i \in 1..Len(plan) :
                                        i \notin asked \/ PromptUserApprove(auto, answers[i])})]

GateActions ==
    {JDict([action_type |-> JStr("create_task"), confidence |-> c]) :
        c \in {JNull, JNum(4), JNum(6), JNum(7), JStr("0.9"), JStr("high")}}

\* run_cycle passes the plan through the gate.
GateRun ==
    /\ fnRes = <<>>
    /\ \E answers \in [1..Len(fnArg.plan) -> BOOLEAN] :
           fnRes' = <<FilterAndApprove(fnArg.plan, GateThreshold, fnArg.auto, answers)>>
    /\ UNCHANGED <<fnArg, cfgVars, llmVars, structVars, poolVars, thrVars, sdkVars, planVars,
                   emVars>>

GateInit ==
    /\ envMulti = <<>> /\ envSingle = NoKey /\ useSdk = FALSE
    /\ maxRetries = MaxRetriesCfg /\ scenario = {}
    /\ InitFrames
    /\ ThreadFrames /\ SdkFrames /\ PlanFrames /\ EmailFrames
    /\ fnArg \in [plan : SeqsUpTo(GateActions, MaxPlan), auto : {"approve", "reject", "none"}]
    /\ fnRes = <<>>

GateNext == GateRun

GateSpec == GateInit /\ [][GateNext]_vars

\* ------------------------------------------------------------------ claims
RECURSIVE SumSeq(_)
SumSeq(q) == IF q = <<>> THEN 0 ELSE Head(q) + SumSeq(Tail(q))

\* The number of loop iterations the configuration allows.
ExpectedCeiling == IF maxRetries < 1 THEN 1 ELSE maxRetries

Returned == llmPc = "returned"
FromBackend == Returned /\ ret.meta.source = "gemini"
\* The failed backend invocations of the current call.
Failures == invocations - (IF FromBackend THEN 1 ELSE 0)

C2_FirstSuccessWins ==
    FromBackend =>
        /\ invocations = attempt
        /\ Len(usedKeys) = invocations
        /\ ret.text = (IF useSdk \/ lastReply # <<>> THEN lastReply ELSE TxtJsonDump)
        /\ ret.meta.api_key_masked = MaskKey(usedKeys[invocations])
        /\ Len(sleeps) = invocations - 1
        /\ pool # NoPool =>
              /\ rotations = invocations - 1
              /\ PoolCurrent(pool) = usedKeys[invocations]

C2_Witness ==
    /\ FromBackend /\ invocations = 3 /\ maxRetries = 4
    /\ pool # NoPool /\ Len(pool.keys) = 2

\* C3 as claimed: a call that reaches its retry loop makes at most MAX_RETRIES
\* backend invocations, and the fallback is returned exactly when all of them
\* failed, then with origin stub-fallback and the error text of the last
\* failed attempt.
C3_Original ==
    (Returned /\ invocations > 0) =>
        /\ invocations <= maxRetries
        /\ ret.meta.source # "gemini" <=> Len(sleeps) = invocations
        /\ ret.meta.source # "gemini" =>
              /\ ret.meta.source = "stub-fallback"
              /\ ret.meta.error = ErrorText(lastExc)

\* C3 as amended: a call makes at most max(1, MAX_RETRIES) backend invocations;
\* the stub-fallback result is returned exactly when that many invocations
\* were made and all failed, with the stub text of the prompt and the error
\* text of the last failed attempt; the plain stub result is returned exactly
\* when no invocation is made (no key configured and no SDK).
C3_BoundedAttempts ==
    /\ invocations <= ExpectedCeiling
    /\ Returned =>
          /\ ret.meta.source = "stub-fallback"
                <=> (invocations = ExpectedCeiling /\ Len(sleeps) = invocations)
          /\ ret.meta.source = "stub-fallback" =>
                /\ lastExc \in Exceptions
                /\ ret.meta.error = ErrorText(lastExc)
                /\ ret.text = StubResponse(prompt).text
          /\ ret.meta.source = "stub" <=> invocations = 0
          /\ ret.meta.source = "stub" =>
                LoadKeyList(envMulti, envSingle) = <<>> /\ ~useSdk

C3_Witness ==
    /\ Returned /\ ret.meta.source = "stub-fallback"
    /\ maxRetries = 3 /\ invocations = 3 /\ IsQuotaError(lastExc)

\* C4 as claimed: with a pool, every failed attempt rotates it exactly once, and
\* a success after three failures returns a result that reports
\* attempts_used = 4, the pool having been rotated exactly 3 times.
C4_Original ==
    pool # NoPool =>
        /\ rotations = Failures
        /\ (FromBackend /\ Failures = 3) =>
              /\ \/ "attempts_used" \in DOMAIN ret
                 \/ "attempts_used" \in DOMAIN ret.meta
              /\ rotations = 3

\* C4 as amended: with a pool, every failed attempt (quota or other) rotates it
\* exactly once, so the cursor is the start index advanced by the number of
\* failures; a success after three failures is returned by attempt 4 after 4
\* invocations with the pool rotated exactly 3 times, and the result holds only
\* text, raw and meta (model, source, api_key_masked): no attempt count.
C4_RotationPerFailure ==
    /\ pool # NoPool =>
          /\ rotations = Failures
          /\ pool.index = (poolStart + Failures) % Len(pool.keys)
    /\ pool = NoPool => rotations = 0
    /\ (FromBackend /\ Failures = 3) =>
          /\ invocations = 4 /\ attempt = 4
          /\ DOMAIN ret = {"text", "raw", "meta"}
          /\ DOMAIN ret.meta = {"model", "source", "api_key_masked"}
          /\ pool # NoPool => rotations = 3

C4_Witness ==
    /\ FromBackend /\ Failures = 3 /\ pool # NoPool /\ rotations = 3
    /\ ~IsQuotaError(lastExc)

\* C5 as claimed: the sleep after failed attempt a is base * 2^(a-1), there is
\* one sleep per failed attempt, and the time slept in one call is at most
\* base * (2^MAX_RETRIES - 1).
C5_Original ==
    /\ \A a \in 1..Len(sleeps) : sleeps[a] = LLM_BACKOFF_BASE * (2 ^ (a - 1))
    /\ Len(sleeps) = Failures
    /\ SumSeq(sleeps) <= LLM_BACKOFF_BASE * ((2 ^ maxRetries) - 1)

\* C5 as amended: the same, with the total bounded by
\* base * (2^max(1, MAX_RETRIES) - 1).
C5_BackoffBound ==
    /\ \A a \in 1..Len(sleeps) : sleeps[a] = LLM_BACKOFF_BASE * (2 ^ (a - 1))
    /\ Len(sleeps) = Failures
    /\ SumSeq(sleeps) <= LLM_BACKOFF_BASE * ((2 ^ ExpectedCeiling) - 1)

C5_Witness ==
    /\ Returned /\ Len(sleeps) = 4
    /\ SumSeq(sleeps) = LLM_BACKOFF_BASE * 15

Done == stage = "done"
\* Extraction failed on the primary, the repair and the regeneration output.
AllStagesFailed == exOk = <<FALSE, FALSE, FALSE>>

C7_LadderOrder ==
    /\ stage = "idle" => calls = 0 /\ exOk = <<>>
    /\ stage = "primary" => calls = 1 /\ exOk = <<>>
    /\ stage = "repair" => calls = 2 /\ exOk = <<FALSE>>
    /\ stage = "regen" => calls = 3 /\ exOk = <<FALSE, FALSE>>
    /\ Done =>
          /\ calls \in 1..3 /\ Len(exOk) = calls
          /\ \A i \in 1..(calls - 1) : ~exOk[i]
          /\ calls < 3 => exOk[calls]
          /\ calls >= 2 <=> ~exOk[1]
          /\ calls = 3 <=> (~exOk[1] /\ ~exOk[2])

C7_Witness ==
    /\ Done /\ calls = 3 /\ exOk = <<FALSE, FALSE, TRUE>>

\* C8: the returned result carries the repair record exactly when the repair
\* call was made and the regeneration record exactly when the regeneration
\* call was made, whether or not that stage produced a parseable text; each
\* record holds the stage name, the text of that call and its metadata.
C8_RepairRecords ==
    /\ stage \in {"idle", "primary", "repair"} =>
          {"_repair_attempt", "_repair_attempt_2"} \cap DOMAIN raw = {}
    /\ stage = "regen" =>
          /\ "_repair_attempt" \in DOMAIN raw
          /\ "_repair_attempt_2" \notin DOMAIN raw
    /\ Done =>
          /\ "_repair_attempt" \in DOMAIN raw <=> calls >= 2
          /\ "_repair_attempt_2" \in DOMAIN raw <=> calls = 3
          /\ calls >= 2 =>
                /\ raw["_repair_attempt"].attempt = "extract_from_text"
                /\ raw["_repair_attempt"].repair_meta.source = origins[2]
          /\ calls = 3 =>
                /\ raw["_repair_attempt_2"].attempt = "regenerate_from_scenario"
                /\ raw["_repair_attempt_2"].repair_meta = ret.meta
                /\ raw["_repair_attempt_2"].repaired_text_snippet
                      = GetTextFromSdkResp(RawOrText(ret))

C8_Witness ==
    /\ Done /\ exOk = <<FALSE, FALSE, FALSE>>
    /\ "_repair_attempt" \in DOMAIN raw /\ "_repair_attempt_2" \in DOMAIN raw
    /\ raw["_repair_attempt"].repair_meta.source = "gemini"

\* C9 (PoolSpec): each rotate advances the cursor by one position circularly
\* and returns the new current key, so after r rotations the cursor is the
\* start index plus r modulo the pool size, and after len(pool) rotations (or
\* any multiple) current() is again the key it was at construction.
C9_RotateCycle ==
    pool # NoPool =>
        /\ pool.index = (poolStart + rotations) % Len(pool.keys)
        /\ rotations % Len(pool.keys) = 0 => PoolCurrent(pool) = poolSrc[poolStart + 1]
        /\ poolLast = "rotate" => poolRet = PoolCurrent(pool)
        /\ poolLast = "current" => poolRet = PoolCurrent(pool)

C9_Witness ==
    /\ pool # NoPool /\ Len(pool.keys) = 2 /\ pool.keys[1] # pool.keys[2]
    /\ poolLast = "rotate" /\ rotations = 2
    /\ poolRet = poolSrc[poolStart + 1]

\* C10 (PoolSpec): after any sequence of current, rotate and mark_dead on a
\* constructed pool the cursor is an index of the key list and the list is the
\* non-empty list given to the constructor; constructing from an empty list
\* raises and leaves no pool.
C10_PoolInvariant ==
    /\ pool # NoPool =>
          /\ pool.keys # <<>>
          /\ pool.keys = poolSrc
          /\ pool.index \in 0..(Len(pool.keys) - 1)
    /\ poolLast = "ValueError" <=> (poolOps > 0 /\ poolSrc = <<>>)
    /\ poolLast = "ValueError" => pool = NoPool

C10_Witness ==
    /\ pool # NoPool /\ Len(pool.keys) = 2
    /\ poolLast = "mark_dead" /\ rotations = 3 /\ pool.index = 0

\* The threads inside a with block of the pool.
InLock == {t \in Threads : thrPc[t] \in {"load", "store", "return"}}

\* C11 (ThreadSpec): when threads sharing one pool interleave current, rotate
\* and mark_dead, at most one thread is inside a locked block, no rotation is
\* lost (after r rotations the cursor is the start index plus r modulo the
\* pool size), the cursor seen by a rotate between its store and its return is
\* the one it stored, every finished rotate returned the key at the index it
\* stored, and every finished current returned a key of the pool.
C11_NoLostUpdate ==
    pool # NoPool =>
        /\ Cardinality(InLock) <= 1
        /\ InLock # {} => lockOwner \in InLock
        /\ pool.index = (poolStart + rotations) % Len(pool.keys)
        /\ \A t \in Threads :
              /\ (thrPc[t] = "return" /\ thrOp[t] # "current") => pool.index = thrSet[t]
              /\ (thrPc[t] = "idle" /\ thrOp[t] \in {"rotate", "mark_dead"})
                     => thrRet[t] = pool.keys[thrSet[t] + 1]
              /\ (thrPc[t] = "idle" /\ thrOp[t] = "current")
                     => \E i \in 1..Len(pool.keys) : thrRet[t] = pool.keys[i]

C11_Witness ==
    /\ pool # NoPool /\ Len(pool.keys) = 2 /\ pool.keys[1] # pool.keys[2]
    /\ rotations = 2 /\ lockOwner = 1
    /\ thrPc[1] = "return" /\ thrOp[1] = "rotate"
    /\ thrPc[2] = "acquire" /\ thrOp[2] = "mark_dead"
    /\ thrRet[2] # NoKey /\ thrRet[2] # PoolCurrent(pool)

\* C12 (SdkSpec): each backend invocation is made with the key handed to it:
\* whenever an invocation has sent its request, concurrently with another or
\* after it, the key that authenticated the request is the key handed to the
\* invocation, and the recorded api_key_masked is the mask of the key that
\* authenticated the request.
C12_OwnCredential ==
    \A t \in Threads :
        sdkPc[t] = "done" =>
            /\ sdkSent[t] = sdkKey[t]
            /\ sdkMasked[t] = MaskKey(sdkSent[t])

\* C13, as claimed: the pool outlives a call and its cursor persists: a call
\* of call_llm that follows another starts at the cursor the earlier call left.
C13_Original ==
    [][(llmPc = "returned" /\ llmPc' = "loop" /\ pool # NoPool /\ pool' # NoPool)
           => pool'.index = pool.index]_vars

\* C13, amended: every call of call_llm builds its own pool from the
\* configured keys, with the cursor at the index drawn for it and no rotation
\* yet; during the call the cursor changes only through one rotation per
\* failed attempt, and after the return the pool of the call changes no more.
C13_PerCallPool ==
    [][/\ (llmPc # "loop" /\ llmPc' = "loop" /\ pool' # NoPool) =>
              /\ pool'.keys = LoadKeyList(envMulti, envSingle)
              /\ poolStart' \in 0..(Len(pool'.keys) - 1)
              /\ pool'.index = poolStart'
              /\ rotations' = 0
       /\ (llmPc = "loop" /\ pool # NoPool) =>
              \/ pool' = pool /\ rotations' = rotations /\ invocations' = invocations + 1
                     /\ llmPc' = "returned"
              \/ pool' = PoolRotate(pool) /\ rotations' = rotations + 1
                     /\ invocations' = invocations + 1
       /\ (llmPc = "returned" /\ llmPc' = "returned") => pool' = pool]_vars

\* The repair call starts at a key other than the one at which the primary
\* call succeeded and left its cursor.
C13_Witness ==
    /\ stage = "repair" /\ llmPc = "loop" /\ invocations = 0 /\ rotations = 0
    /\ pool # NoPool
    /\ raw.meta.source = "gemini"
    /\ raw.meta.api_key_masked # MaskKey(PoolCurrent(pool))

\* The pool after k rotations.
RECURSIVE RotN(_, _)
RotN(p, k) == IF k = 0 THEN p ELSE RotN(PoolRotate(p), k - 1)

\* C14 (PoolSpec): mark_dead(c) does to the pool what one rotate does,
\* whatever c is (the current key, another key of the pool or a value that is
\* not in the pool): the key list is kept and the cursor moves one position on
\* circularly; and no key is excluded: from the state after any operation, each
\* key of the list given to the constructor is current after at most len(pool)
\* rotations.
C14_MarkDeadIsRotate ==
    [][/\ (poolLast' = "mark_dead" /\ poolOps' # poolOps) =>
              /\ pool'.keys = pool.keys
              /\ pool'.index = (pool.index + 1) % Len(pool.keys)
              /\ PoolCurrent(pool') = PoolCurrent(PoolRotate(pool))
       /\ pool' # NoPool =>
              \A i \in 1..Len(poolSrc') :
                  \E k \in 1..Len(poolSrc') : PoolCurrent(RotN(pool', k)) = poolSrc'[i]]_vars

C14_Witness ==
    /\ pool # NoPool /\ Len(pool.keys) = 2 /\ pool.keys[1] # pool.keys[2]
    /\ poolLast = "mark_dead" /\ poolArg = OtherKey
    /\ rotations = 2 /\ pool.index = poolStart /\ poolOps = 3

\* Neither MULTI_GEMINI_KEYS nor GEMINI_API_KEY holds a key.
NoCredentials == envMulti = <<>> /\ envSingle = NoKey

\* C15, as claimed: with no credential configured a call ends in a
\* configuration error raised at pool construction, and no backend invocation
\* is ever made without a credential.
C15_Original ==
    /\ NoCredentials => llmPc \in {"idle", "raised"}
    /\ \A i \in 1..Len(usedKeys) : usedKeys[i] # NoKey

\* C15, amended: with no credential configured call_llm constructs no pool and
\* raises nothing: without the SDK it returns the stub and invokes no backend;
\* with the SDK it invokes the backend with the empty key on each attempt. With
\* a credential configured the call works on a pool of the configured keys
\* and hands a key of it, which is not empty, to every invocation.
C15_NoCredentials ==
    /\ llmPc # "raised"
    /\ (NoCredentials /\ llmPc # "idle") =>
          /\ pool = NoPool
          /\ ~useSdk => (Returned /\ invocations = 0 /\ ret.meta.source = "stub")
          /\ useSdk =>
                /\ llmPc = "loop" \/ invocations > 0
                /\ \A i \in 1..Len(usedKeys) : usedKeys[i] = NoKey
    /\ (~NoCredentials /\ llmPc # "idle") =>
          /\ pool # NoPool
          /\ pool.keys = (IF envMulti # <<>> THEN envMulti ELSE <<envSingle>>)
          /\ \A i \in 1..Len(usedKeys) :
                 usedKeys[i] # NoKey /\ \E j \in 1..Len(pool.keys) : usedKeys[i] = pool.keys[j]

C15_Witness ==
    /\ NoCredentials /\ useSdk /\ pool = NoPool
    /\ FromBackend /\ usedKeys = <<NoKey, NoKey>>
    /\ ret.meta.api_key_masked = EmptyMask

\* The tokens of a text.
Tokens(t) == {t[i] : i \in 1..Len(t)}

\* C16 (StubSpec): the fallback plan is a function of the prompt alone: all
\* calls with one prompt return the same text whatever error ended them; a
\* prompt with a cost keyword gets the budget-reduction plan, also when it
\* holds an overload keyword too; otherwise a prompt with an overload keyword
\* gets the reassignment and notification plan; any other prompt gets the
\* single generic task.
C16_StubByKeyword ==
    \A i \in 1..Len(fnRes) :
        /\ fnRes[i].text = fnRes[1].text
        /\ (\E w \in {"high_cpa", "CPA", "cost increase"} : w \in fnArg)
               => /\ "adjust_budget" \in Tokens(fnRes[i].text)
                  /\ "reassign_task" \notin Tokens(fnRes[i].text)
        /\ (/\ \A w \in {"high_cpa", "CPA", "cost increase"} : w \notin fnArg
            /\ \E w \in {"overload", "overloaded", "dev_overload"} : w \in fnArg)
               => /\ {"reassign_task", "draft_email"} \subseteq Tokens(fnRes[i].text)
                  /\ "adjust_budget" \notin Tokens(fnRes[i].text)
        /\ fnArg = {}
               => fnRes[i].text = <<"{", "plan:", "[", "create_task", "]", "}">>

\* Two exhausted calls with a prompt holding keywords of both kinds, ended by
\* different errors.
C16_Witness ==
    /\ fnArg = {"CPA", "overloaded"}
    /\ Len(fnRes) = 2
    /\ fnRes[1].meta.source = "stub-fallback" /\ fnRes[2].meta.source = "stub-fallback"
    /\ fnRes[1].meta.error # fnRes[2].meta.error
    /\ fnRes[2].text = StubCostPlan

\* The adjust_budget actions of the plan returned.
BudgetActions ==
    SelectSeq(planOut.plan, LAMBDA a : Get(a, "action_type") = JStr("adjust_budget"))
HighCpaRisks == SelectSeq(planRisks, IsHighCpa)

\* plan_actions has returned, the prompt held high_cpa and every call_llm of
\* the loop ended in the stub-fallback.
AllFailedOnHighCpa ==
    /\ planPc = "done"
    /\ "high_cpa" \in PromptWords(planBoard, planRisks)
    /\ planOut.llm_raw.meta.source = "stub-fallback"

\* C17 as stated (PlanSpec): the plan holds exactly one adjust_budget action,
\* with adjustment -0.2.
C17_Original ==
    AllFailedOnHighCpa =>
        /\ Len(BudgetActions) = 1
        /\ Get(BudgetActions[1], "adjustment") = JNum(-2)

\* C17 (PlanSpec): when the prompt holds high_cpa and the backend fails on
\* every attempt, the plan holds one adjust_budget action for each high_cpa
\* risk of the insights, and exactly one when the insights flag at most one;
\* each has adjustment -0.2.
C17_OnePerRisk ==
    AllFailedOnHighCpa =>
        /\ Len(BudgetActions) = Max(1, Len(HighCpaRisks))
        /\ \A i \in 1..Len(BudgetActions) :
               /\ Get(BudgetActions[i], "adjustment") = JNum(-2)
               /\ Get(BudgetActions[i], "details").m["adjustment"] = JNum(-2)
        /\ planTry = AgentAttempts

\* All attempts failed on insights that flag two high_cpa risks: two
\* adjust_budget actions, one per campaign.
C17_Witness ==
    /\ AllFailedOnHighCpa
    /\ planRisks = <<RiskLeadgen, RiskBrand>>
    /\ Len(BudgetActions) = 2
    /\ Get(BudgetActions[1], "campaign_id") = JStr("leadgen_nov")
    /\ Get(BudgetActions[2], "campaign_id") = JStr("brand_q4")

\* C18 (MapSpec): for every raw action (string, list, dict with any type and
\* confidence value, or any other value) _map_action returns an action whose
\* action_type is in the canonical set and whose confidence is within 0 and 1.
C18_CanonicalRange ==
    fnRes # <<>> =>
        /\ fnRes[1].exc = "none"
        /\ fnRes[1].val.m["action_type"].s \in CanonicalTypes
        /\ fnRes[1].val.m["confidence"].n \in 0..10

\* A dict action has no confidence, or one that cannot be read as a number.
ConfMissing == fnArg.k = "dict" /\ Get(fnArg, "confidence").k = "null"
ConfInvalid ==
    /\ fnArg.k = "dict"
    /\ \/ Get(fnArg, "confidence").k \in {"list", "dict"}
       \/ /\ Get(fnArg, "confidence").k = "str"
          /\ Get(fnArg, "confidence").s \notin {"0.9", "1.5"}

\* C19 (MapSpec): on a dict action, a missing confidence and one that cannot
\* be read as a number both give an action with confidence 0.5, never an error.
C19_ConfidenceDefault ==
    (fnRes # <<>> /\ (ConfMissing \/ ConfInvalid)) =>
        /\ fnRes[1].exc = "none"
        /\ fnRes[1].val.m["confidence"].n = 5

\* The fields of an action that carry meaning: the canonical four and the
\* top-level mirrors.
MeaningFields ==
    {"action_type", "details", "reason", "confidence", "task", "task_id"} \cup MirrorKeys
Meaning(a) == [key \in DOMAIN a.m \cap MeaningFields |-> a.m[key]]

\* C21 (MapSpec): _map_action applied to the action it returned for a raw dict
\* action returns an action equal to it on action_type, details, reason,
\* confidence and the top-level mirrors.
C21_Idempotent ==
    (Len(fnRes) = 2 /\ fnArg.k = "dict") =>
        /\ fnRes[2].exc = "none"
        /\ Meaning(fnRes[2].val) = Meaning(fnRes[1].val)

CanonicalFields ==
    {"action_type", "details", "reason", "confidence", "expected_impact", "preconditions",
     "rollback_plan", "estimated_time_hours"}

\* C20 (PlanSpec): every action of every plan that plan_actions returns has
\* the canonical fields action_type, details, reason, confidence,
\* expected_impact, preconditions, rollback_plan and estimated_time_hours,
\* whichever path produced it.
C20_CanonicalShape ==
    planPc = "done" =>
        \A i \in 1..Len(planOut.plan) : CanonicalFields \subseteq DOMAIN planOut.plan[i].m

\* The object the model returned, when plan_actions returned a plan built on
\* a gemini response that is an object with campaigns or risks and without a
\* list of actions.
Restated == AgentExtract(planOut.llm_raw.text)
RestatesInput ==
    /\ planPc = "done"
    /\ planOut.llm_raw.meta.source = "gemini"
    /\ Restated.k = "dict"
    /\ DOMAIN Restated.m \cap {"campaigns", "risks"} # {}
    /\ DOMAIN Restated.m \cap {"actions", "plan"} = {}

\* The campaign ids of the high_cpa risks flagged under the campaigns cs, in
\* order.
RECURSIVE FlaggedUnder(_)
FlaggedUnder(cs) ==
    IF cs = <<>> THEN <<>>
    ELSE LET c == Head(cs)
             rs == IF Get(c, "risks").k = "dict" THEN <<Get(c, "risks")>>
                   ELSE IF Get(c, "risks").k = "list" THEN Get(c, "risks").items
                   ELSE <<>>
             n == Len(SelectSeq(rs, LAMBDA r : r.k = "dict" /\ IsHighCpa(r)))
         IN [i \in 1..n |-> Get(c, "campaign_id")] \o FlaggedUnder(Tail(cs))

\* The campaign ids of the high_cpa risks in a list of risks.
FlaggedIn(rs) ==
    LET high == SelectSeq(rs, LAMBDA r : r.k = "dict" /\ IsHighCpa(r))
    IN [i \in 1..Len(high) |-> Get(high[i], "campaign_id")]

FlaggedCampaigns ==
    IF Get(Restated, "campaigns").k = "list"
    THEN FlaggedUnder(SelectSeq(Get(Restated, "campaigns").items, LAMBDA c : c.k = "dict"))
    ELSE <<>>
FlaggedTop ==
    IF Get(Restated, "risks").k = "list" THEN FlaggedIn(Get(Restated, "risks").items) ELSE <<>>

\* The plan is one adjust_budget action of -0.2 for each of the campaign ids.
PlanIsBudgetFor(ids) ==
    /\ Len(planOut.plan) = Len(ids)
    /\ \A i \in 1..Len(ids) :
           /\ Get(planOut.plan[i], "action_type") = JStr("adjust_budget")
           /\ Get(planOut.plan[i], "details").m["adjustment"] = JNum(-2)
           /\ Get(planOut.plan[i], "details").m["campaign_id"] = ids[i]

\* C22 as stated (PlanSpec): the plan is one adjust_budget action per high_cpa
\* risk that the restated object flags, under its campaigns or in its risks.
C22_Original == RestatesInput => PlanIsBudgetFor(FlaggedCampaigns \o FlaggedTop)

\* C22 (PlanSpec): when the model restates the input, the plan is one
\* adjust_budget action of -0.2 per high_cpa risk flagged under the campaigns
\* of that object, with the id of the campaign; when the object flags none
\* there, one per high_cpa risk of the insights, with the id in the risk; when
\* the insights flag none either, the plan has no adjust_budget action.
C22_PerFlaggedRisk ==
    RestatesInput =>
        IF FlaggedCampaigns # <<>> THEN PlanIsBudgetFor(FlaggedCampaigns)
        ELSE IF FlaggedIn(planRisks) # <<>> THEN PlanIsBudgetFor(FlaggedIn(planRisks))
        ELSE BudgetActions = <<>>

\* The model restated two campaigns, one with a list of risks and one with a
\* single risk: two adjust_budget actions, whatever the insights hold.
C22_Witness ==
    /\ RestatesInput
    /\ planRisks = <<RiskOther>>
    /\ FlaggedCampaigns = <<JStr("leadgen_nov"), JStr("brand_q4")>>
    /\ PlanIsBudgetFor(FlaggedCampaigns)

\* C23 (PlanSpec): plan_actions never raises: whatever the backend answered,
\* and when every call failed, it ends by returning a record with a plan and
\* the raw response.
C23_NeverRaises ==
    planPc \in {"done", "raised"} =>
        /\ planPc = "done"
        /\ DOMAIN planOut = {"plan", "llm_raw"}

\* The number of worker calls made so far.
WorkerCalls == Len(SelectSeq(emCalls, LAMBDA c : c.kind = "worker"))

MergedThree == emPc = "done" /\ emWorkers = 3
RepairCalled == \E i \in 1..Len(emCalls) : emCalls[i].kind = "repair"
RepairUsed == "repair_used" \in DOMAIN emFinal.meta /\ emFinal.meta["repair_used"] = JBool(TRUE)

\* The text of the merge response holds a bad word.
MergeTextMarked == WordsOf(PyText(emMerge.raw.lines)) \cap BadWords # {}

\* The draft that the merge response was normalized to, and whether its body
\* or its subject holds a bad word.
MergedDraft == NormalizeParsed(OrEmptyDict(emMerge.parsed), emMerge.raw, emHint).val
MergedDraftMarked ==
    \E f \in {MergedDraft.body, MergedDraft.subject} :
        f.k = "text" /\ WordsOf(f) \cap BadWords # {}

\* C25 as stated (EmailSpec): in a merge of three drafts, a merge response
\* text that holds a corruption marker makes the repair call happen and the
\* returned draft carry meta.repair_used = true.
C25_Original == (MergedThree /\ MergeTextMarked) => (RepairCalled /\ RepairUsed)

\* C25 (EmailSpec): in a merge of three drafts the repair call is made exactly
\* when the body or the subject of the normalized merged draft holds a
\* corruption marker; the returned draft then carries meta.repair_used = true
\* whenever the repair gave a draft with a body, and is the merged draft
\* otherwise.
C25_RepairOnMarkedDraft ==
    MergedThree =>
        /\ RepairCalled <=> MergedDraftMarked
        /\ RepairUsed => RepairCalled
        /\ (RepairCalled /\ ~RepairUsed) =>
               /\ emFinal.body = MergedDraft.body
               /\ emFinal.subject = MergedDraft.subject

\* The merge of three drafts answered with a JSON email whose body holds
\* MAX_TOKENS: the repair call was made and the draft returned is marked.
C25_Witness ==
    /\ MergedThree
    /\ emMerge.parsed.k = "dict" /\ "MAX_TOKENS" \in WordsOf(MergedDraft.body)
    /\ RepairCalled /\ RepairUsed
    /\ WordsOf(emFinal.body) \cap BadWords = {}

\* C26 (EmailSpec): generate_email_interactive never raises: whatever the
\* worker, merge and repair calls return and whether or not the log is
\* written, it ends by returning a draft whose to, subject and body are not
\* empty.
C26_NeverRaises ==
    emPc \in {"done", "raised"} =>
        /\ emPc = "done" /\ emExc = "none"
        /\ Truthy(emFinal.to) /\ Truthy(emFinal.subject) /\ Truthy(emFinal.body)

\* The sequence q holds the sequence key as a run of consecutive elements.
Holds(q, key) == \E i \in 1..(Len(q) - Len(key) + 1) : SubSeq(q, i, i + Len(key) - 1) = key

\* C27 (Spec): the api_key_masked recorded for an invocation with a non-empty
\* credential shows a proper suffix of it only: the whole credential does not
\* appear in the result metadata.
C27_MaskHidesKey ==
    (llmPc = "returned" /\ ret.meta.source = "gemini" /\ usedKeys[invocations] # NoKey) =>
        ~Holds(ret.meta.api_key_masked, usedKeys[invocations])

\* C28 as stated (BudgetSpec): whatever budgets the caller passes, the repair
\* call and the regeneration call get a budget strictly smaller than that of
\* the primary call.
C28_Original ==
    \A i \in 2..Len(fnRes) : fnRes[i].max_output_tokens < fnRes[1].max_output_tokens

\* The budgets of the defaults and of the calls of the email tool.
RepoBudgets ==
    {Budgets(DefaultMaxTokens, DefaultRepairTokens), Budgets(WorkerTokens, EmailRepairMax),
     Budgets(MergeTokens, EmailRepairMax), Budgets(RepairTokens, EmailRepairMax)}

\* C28 (BudgetSpec): the primary call gets the max_output_tokens of the
\* caller, the repair call and the regeneration call get its
\* repair_max_tokens; that budget is strictly smaller than the primary one
\* for the default budgets and for those of the email tool.
C28_BudgetsAsPassed ==
    /\ \A i \in 1..Len(fnRes) :
           fnRes[i].max_output_tokens = IF i = 1 THEN fnArg.max_output_tokens
                                        ELSE fnArg.repair_max_tokens
    /\ fnArg \in RepoBudgets =>
           \A i \in 2..Len(fnRes) : fnRes[i].max_output_tokens < fnRes[1].max_output_tokens

\* With the default budgets all three calls were made: 400, 200 and 200.
C28_Witness ==
    /\ fnArg = Budgets(DefaultMaxTokens, DefaultRepairTokens)
    /\ [i \in 1..Len(fnRes) |-> fnRes[i].stage] = <<"primary", "repair", "regenerate">>
    /\ [i \in 1..Len(fnRes) |-> fnRes[i].max_output_tokens] = <<400, 200, 200>>

\* C29 (ExtractSpec): from an unfenced text that holds a valid JSON object
\* followed by any further text, both extraction functions recover that
\* first object.
C29_FirstObjectRecovered ==
    \A i \in 1..Len(fnRes) : fnRes[i].parsed = SomeParsed(fnArg.obj)

\* The text of the primary response holds no JSON at all: no brace and no
\* bracket.
NoJsonAtAll(t) == Tokens(t) \cap {"{", "}", "[", "]"} = {}
PrimaryNoJson == Done /\ NoJsonAtAll(raw.text)
ParseFailed30 ==
    /\ parsed.val = Sentinel
    /\ "_parse_status" \in DOMAIN raw /\ raw["_parse_status"] = "failed"

\* C30 as stated: when the text of the primary response holds no JSON at all,
\* every stage fails and the sentinel parse_failed result is returned.
C30_Original == PrimaryNoJson => (AllStagesFailed /\ ParseFailed30)

\* C30: when the text of the primary response holds no JSON at all,
\* extraction of it fails and the repair call is made; the sentinel
\* parse_failed result is returned exactly when the texts of the repair call
\* and of the regeneration call do not parse either, and otherwise the value
\* parsed from the first of them that does.
C30_SentinelIfRecoveryFails ==
    PrimaryNoJson =>
        /\ ~exOk[1] /\ calls >= 2
        /\ ParseFailed30 <=> (calls = 3 /\ ~exOk[2] /\ ~exOk[3])
        /\ "_parse_status" \in DOMAIN raw <=> ParseFailed30
        /\ ~ParseFailed30 =>
              /\ exOk[calls]
              /\ parsed = ExtractJson(GetTextFromSdkResp(RawOrText(ret)))

\* A prose primary response, then a repair and a regeneration response that
\* do not parse: the sentinel is returned.
C30_Witness ==
    /\ PrimaryNoJson /\ raw.text = TxtProse
    /\ calls = 3 /\ exOk = <<FALSE, FALSE, FALSE>>
    /\ ParseFailed30

\* C31 (ExecSpec): execute_plan returns exactly one result per action, in plan
\* order, and no action whose action_type is in the canonical set of
\* _map_action is refused as unknown_action.
C31_AcceptsCanonical ==
    \A r \in 1..Len(fnRes) :
        /\ fnRes[r].exc = "none"
        /\ [i \in 1..Len(fnRes[r].results) |-> fnRes[r].results[i].action] = fnArg
        /\ \A i \in 1..Len(fnRes[r].results) :
               Get(fnArg[i], "action_type").s \in CanonicalTypes
                   => fnRes[r].results[i].reason # "unknown_action"

\* The files written so far.
LogFiles == UNION {{fnRes[r].files[i] : i \in 1..Len(fnRes[r].files)} : r \in 1..Len(fnRes)}

\* C32 (LogSpec): after any sequence of run cycles, demo runs and email
\* generations that save their logs, every file written under logs/ decodes
\* as JSON to a dict or a list that is not empty.
C32_LogsDecode ==
    \A f \in LogFiles :
        /\ f.complete
        /\ f.value.k \in {"dict", "list"}
        /\ Truthy(f.value)

\* A run cycle over an SDK response, then a demo run with the model: the
\* llm samples hold the printed form of the response object, not the object.
C32_Witness ==
    /\ fnArg.origin = "sdk" /\ fnArg.structured = "sdk" /\ fnArg.completes
    /\ [r \in 1..Len(fnRes) |-> fnRes[r].by] = <<"run_cycle", "run_demo_llm">>
    /\ \A r \in 1..2 :
           /\ [i \in 1..Len(fnRes[r].files) |-> fnRes[r].files[i].dir]
                 = <<"llm_samples", "decisions">>
           /\ "raw_str" \in DOMAIN fnRes[r].files[1].value.m
    /\ "parsed" \in DOMAIN fnRes[2].files[1].value.m

\* C33 (GateSpec): approval is asked exactly for the actions whose confidence
\* is strictly below the threshold; the others are kept without a request,
\* and the approved plan is a sub-sequence of the plan, in its order.
C33_AsksBelowThreshold ==
    fnRes # <<>> =>
        /\ fnRes[1].asked = {i \in 1..Len(fnArg.plan) : GateConf(fnArg.plan[i]) < GateThreshold}
        /\ \E keep \in SUBSET (1..Len(fnArg.plan)) :
               /\ (1..Len(fnArg.plan)) \ fnRes[1].asked \subseteq keep
               /\ fnRes[1].approved = SeqOfIdx(fnArg.plan, keep)

\* _call_llm_with_retries is over.
PlanCalled == planPc \in {"extract", "hard", "done", "raised"}

\* The source of the response is the live backend or an error-free stub.
LiveOrCleanStub(resp) ==
    resp.meta.source \in {"gemini", "stub"} /\ "error" \notin DOMAIN resp.meta

\* What C34 says of the calls of call_llm: at most attempts calls; an accepted
\* response is returned at once; a fallback-after-error response is retried
\* and, when it is the last of attempts calls, returned instead of raising.
RetriesAsDocumented ==
    /\ calls <= AgentAttempts /\ planTry <= calls
    /\ planPc = "calling" => calls = planTry /\ calls < AgentAttempts
    /\ (PlanCalled /\ planLast.kind = "resp" /\ LiveOrCleanStub(planLast.resp)) =>
           calls = planTry + 1 /\ planPc # "hard"
    /\ (PlanCalled /\ planLast.kind = "resp" /\ ~LiveOrCleanStub(planLast.resp)) =>
           /\ planLast.resp.meta.source = "stub-fallback"
           /\ calls = AgentAttempts /\ planTry = AgentAttempts
           /\ planPc # "hard"
    /\ planPc = "hard" => planLast.kind = "exc" /\ calls = AgentAttempts

\* C34 as stated (PlanSpec): the calls are as documented, so one plan_actions
\* causes at most attempts * LLM_MAX_RETRIES backend invocations.
C34_Original == RetriesAsDocumented /\ invocations <= AgentAttempts * maxRetries

\* C34 (PlanSpec): the calls are as documented, so one plan_actions causes at
\* most attempts * max(1, LLM_MAX_RETRIES) backend invocations.
C34_BoundedInvocations ==
    RetriesAsDocumented /\ invocations <= AgentAttempts * Max(1, maxRetries)

\* Three fallback-after-error responses: the last one is returned, after
\* attempts * LLM_MAX_RETRIES invocations.
C34_Witness ==
    /\ planPc = "done" /\ calls = AgentAttempts
    /\ planLast.kind = "resp" /\ planLast.resp.meta.source = "stub-fallback"
    /\ maxRetries = MaxRetriesCfg /\ invocations = AgentAttempts * MaxRetriesCfg

\* C35 (PlanSpec): when plan_actions is called with use_llm = False, no
\* backend invocation is made and the response it works from is the stub,
\* whether or not credentials are configured.
C35_NoLlmNoBackend ==
    ~fnArg.use_llm =>
        /\ invocations = 0
        /\ (planPc \in {"extract", "done", "raised"} /\ planLast.kind = "resp") =>
               planLast.resp.meta.source = "stub"

\* The canned plans of _stub_response.
StubPlans == {StubCostPlan, StubOverloadPlan, StubGenericPlan}

\* C36: when every backend attempt of the primary call fails,
\* call_llm_structured returns after one call of call_llm with the canned
\* fallback plan as parsed value, not the sentinel, and without a repair
\* record; and the sentinel is returned only when the regeneration call got
\* its text from a successful backend invocation.
C36_FallbackNeverSentinel ==
    Done =>
        /\ origins[1] = "stub-fallback" =>
              /\ calls = 1
              /\ parsed.ok /\ parsed.val \in StubPlans /\ parsed.val # Sentinel
              /\ {"_repair_attempt", "_repair_attempt_2", "_parse_status"} \cap DOMAIN raw = {}
        /\ ("_parse_status" \in DOMAIN raw \/ parsed.val = Sentinel) =>
              /\ origins[calls] = "gemini"
              /\ "_parse_status" \in DOMAIN raw => calls = 3

\* Every attempt of the primary call failed and the fallback plan came back.
C36_Witness ==
    /\ Done /\ origins = <<"stub-fallback">>
    /\ invocations = LoopCeiling(maxRetries) /\ lastExc # NoExc
    /\ parsed.val \in StubPlans /\ raw.meta.source = "stub-fallback"

\* The keys that the stages after the primary call may add to raw.
LaterKeys == {"_repair_attempt", "_repair_attempt_2", "_parse_status"}

\* The step leaves every key that raw already has as it is and adds only
\* keys of the later stages.
RawKept ==
    /\ DOMAIN raw \subseteq DOMAIN raw'
    /\ \A key \in DOMAIN raw : raw'[key] = raw[key]
    /\ DOMAIN raw' \ DOMAIN raw \subseteq LaterKeys

\* C37: the result returned by call_llm_structured is the result of the
\* primary call. When the primary call returns, raw is its result (text,
\* origin and masked credential included); the repair and regeneration stages
\* change none of its keys, and put the metadata of their own call only into
\* the record they add.
C37_RawIsPrimaryResult ==
    [][/\ (stage = "primary" /\ stage' # "primary") =>
              /\ DOMAIN ret \subseteq DOMAIN raw'
              /\ \A key \in DOMAIN ret : raw'[key] = ret[key]
              /\ DOMAIN raw' \ DOMAIN ret \subseteq {"_parse_status"}
       /\ stage = "repair" => RawKept
       /\ stage = "regen" => RawKept
       /\ (stage = "repair" /\ stage' # "repair") =>
              raw'["_repair_attempt"].repair_meta = ret.meta
       /\ (stage = "regen" /\ stage' # "regen") =>
              raw'["_repair_attempt_2"].repair_meta = ret.meta]_vars

\* The parsed value came from the regeneration call, whose metadata differs
\* from that of the primary call.
C37_Witness ==
    /\ Done /\ calls = 3 /\ exOk = <<FALSE, FALSE, TRUE>>
    /\ raw.meta.source = "gemini" /\ origins[1] = "gemini"
    /\ raw["_repair_attempt_2"].repair_meta.source = "stub-fallback"
    /\ raw["_repair_attempt"].repair_meta # raw.meta

\* The pool position that attempt i of the current call_llm uses.
PositionOf(i) == (poolStart + i - 1) % Len(pool.keys)
PositionsTried == {PositionOf(i) : i \in 1..invocations}
CredentialsTried == {usedKeys[i] : i \in 1..Len(usedKeys)}
CredentialsOfPool == {pool.keys[i] : i \in 1..Len(pool.keys)}
NoRepeatedKey == Cardinality(CredentialsOfPool) = Len(pool.keys)
\* call_llm has a pool and is in its loop or has returned from it.
PoolInUse == pool # NoPool /\ llmPc \in {"loop", "returned"}
FellBack == llmPc = "returned" /\ ret.meta.source = "stub-fallback"

\* Attempt i uses the credential at position (start + i - 1) mod n.
RoundRobin ==
    /\ Len(usedKeys) = invocations
    /\ \A i \in 1..invocations : usedKeys[i] = pool.keys[PositionOf(i) + 1]

FinalMarked ==
    \E f \in {emFinal.body, emFinal.subject} :
        f.k = "text" /\ WordsOf(f) \cap BadWords # {}

\* C39 as stated: the draft that generate_email_interactive returns never
\* holds a corruption marker in its subject or body.
C39_Original == emPc = "done" => ~FinalMarked

\* C39 (EmailSpec): a draft returned without a repair call holds no corruption
\* marker in its subject or body. A returned draft holds one only when the
\* normalized merged draft held one and the repair call was made: it is then
\* the repaired draft, which is not checked again, or the merged draft itself
\* when the repair gave no body.
C39_MarkerOnlyAfterRepair ==
    (emPc = "done" /\ FinalMarked) =>
        /\ RepairCalled /\ MergedDraftMarked
        /\ \/ RepairUsed
           \/ emFinal.subject = MergedDraft.subject /\ emFinal.body = MergedDraft.body

\* The repair call was made and the draft it gave, marker included, is returned.
C39_Witness == emPc = "done" /\ RepairCalled /\ RepairUsed /\ FinalMarked

====
